---- MODULE Spec2Model ----
(***************************************************************************)
(* A model of the inference cache and streaming generator of enklayve      *)
(* (src/enklayve-app/src-tauri/src/model_cache.rs), of its hybrid search   *)
(* (vector_search.rs), of its embeddings (embeddings.rs), of its chunking   *)
(* (documents.rs) and of its document store (database.rs).                 *)
(*                                                                         *)
(* Seven specifications share the variables of the module:                 *)
(*   Spec       one loaded model, callers running generate and             *)
(*              generate_streaming token by token, a concurrent stop       *)
(*              request, the prompt-cache bookkeeping;                     *)
(*   SpecCache  threads calling get_or_load, preload_model, clear,         *)
(*              generate, cancel_preload concurrently, one step per lock   *)
(*              acquisition;                                               *)
(*   SpecSearch one hybrid_search call over a corpus of chunks;            *)
(*   SpecEmbed  one generate_embeddings_parallel call, its batches         *)
(*              finishing in any order;                                    *)
(*   SpecChunk  one chunk_text call, one step per paragraph;               *)
(*   SpecStore  documents stored, deleted and searched in the database;    *)
(*   SpecCosine one cosine_similarity call on two embeddings.              *)
(*                                                                         *)
(* A Rust String is a TLA+ string; len() counts UTF-8 bytes (ByteLen) and  *)
(* chars().count() counts characters (Len).                                *)
(***************************************************************************)
EXTENDS Integers, Sequences, FiniteSets, TLC

(***************************************************************************)
(* Strings: the operations of str and String the code uses.                *)
(***************************************************************************)

\* The characters of the model's texts that take 2 and 3 bytes in UTF-8.
TwoByteChars == {"é", "ö", "ü"}

ThreeByteChars == {"€"}

\* char::is_whitespace, for the white space the model's texts contain.
WhiteSpace == {" ", "\n", "\t", "\r"}

CharAt(s, k) == SubSeq(s, k, k)

\* str::len: the length in bytes.
ByteLen(s) ==
    Len(s) + Cardinality({k \in 1..Len(s) : CharAt(s, k) \in TwoByteChars})
           + 2 * Cardinality({k \in 1..Len(s) : CharAt(s, k) \in ThreeByteChars})

\* str::is_char_boundary(b): some prefix of s is b bytes long. A prefix of k
\* characters has between k and k + (ByteLen(s) - Len(s)) bytes.
IsCharBoundary(s, b) ==
    LET extra == ByteLen(s) - Len(s)
        lo == IF b - extra < 0 THEN 0 ELSE b - extra
        hi == IF b < Len(s) THEN b ELSE Len(s)
    IN  \E k \in lo..hi : ByteLen(SubSeq(s, 1, k)) = b

\* The number of characters that end at or before byte offset b.
CharsUpTo(s, b) ==
    LET extra == ByteLen(s) - Len(s)
        lo == IF b - extra < 0 THEN 0 ELSE b - extra
        hi == IF b < Len(s) THEN b ELSE Len(s)
        ks == {k \in lo..hi : ByteLen(SubSeq(s, 1, k)) <= b}
    IN  IF ks = {} THEN 0 ELSE CHOOSE k \in ks : \A j \in ks : j <= k

\* &s[a..b] on byte offsets; the slice panics unless both are char boundaries.
SliceOk(s, a, b) ==
    a <= b /\ b <= ByteLen(s) /\ IsCharBoundary(s, a) /\ IsCharBoundary(s, b)

ByteSlice(s, a, b) == SubSeq(s, CharsUpTo(s, a) + 1, CharsUpTo(s, b))

\* str::contains
contains(s, p) ==
    \E k \in 1..(Len(s) - Len(p) + 1) : SubSeq(s, k, k + Len(p) - 1) = p

\* s.chars().skip(n).collect()
SkipChars(s, n) == SubSeq(s, n + 1, Len(s))

\* str::matches(p).count(): the occurrences of p, left to right, not overlapping.
RECURSIVE MatchesFrom(_, _, _)
MatchesFrom(s, p, from) ==
    LET ks == {k \in from..(Len(s) - Len(p) + 1) : SubSeq(s, k, k + Len(p) - 1) = p}
    IN  IF ks = {} THEN 0
        ELSE LET k0 == CHOOSE k \in ks : \A j \in ks : k <= j
             IN  1 + MatchesFrom(s, p, k0 + Len(p))

matches_count(s, p) == MatchesFrom(s, p, 1)

UpperLetters == "ABCDEFGHIJKLMNOPQRSTUVWXYZ"

LowerLetters == "abcdefghijklmnopqrstuvwxyz"

LowerChar(c) ==
    IF \E k \in 1..26 : CharAt(UpperLetters, k) = c
    THEN CharAt(LowerLetters, CHOOSE k \in 1..26 : CharAt(UpperLetters, k) = c)
    ELSE c

\* str::to_lowercase, on the letters the model's texts contain.
RECURSIVE to_lowercase(_)
to_lowercase(s) ==
    IF Len(s) = 0 THEN ""
    ELSE IF Len(s) = 1 THEN LowerChar(s)
    ELSE LET h == Len(s) \div 2
         IN  to_lowercase(SubSeq(s, 1, h)) \o to_lowercase(SubSeq(s, h + 1, Len(s)))

IsWhite(s, k) == CharAt(s, k) \in WhiteSpace

\* str::trim
trim(s) ==
    LET ks == {k \in 1..Len(s) : ~IsWhite(s, k)}
    IN  IF ks = {} THEN ""
        ELSE SubSeq(s, CHOOSE k \in ks : \A j \in ks : k <= j,
                       CHOOSE k \in ks : \A j \in ks : j <= k)

\* The positions where a word of s starts, and the word starting at such a place.
WordStarts(s) ==
    {k \in 1..Len(s) : ~IsWhite(s, k) /\ (k = 1 \/ IsWhite(s, k - 1))}

WordAt(s, a) ==
    LET stops == {k \in a..Len(s) : IsWhite(s, k)}
        e == IF stops = {} THEN Len(s)
             ELSE (CHOOSE k \in stops : \A j \in stops : k <= j) - 1
    IN  SubSeq(s, a, e)

\* s.split_whitespace().collect::<HashSet<&str>>()
WordSet(s) == {WordAt(s, a) : a \in WordStarts(s)}

\* s.split_whitespace().collect::<Vec<_>>().join(" "): the words of s with one
\* space between them. Character k of s is kept when it is part of a word, and
\* becomes one space when it is the first white space after a word that is
\* followed by another word.
JoinedChar(s, k) ==
    IF ~IsWhite(s, k) THEN CharAt(s, k)
    ELSE IF k > 1 /\ ~IsWhite(s, k - 1) /\ (\E j \in (k + 1)..Len(s) : ~IsWhite(s, j))
         THEN " "
    ELSE ""

RECURSIVE JoinRange(_, _, _)
JoinRange(s, lo, hi) ==
    IF lo > hi THEN ""
    ELSE IF lo = hi THEN JoinedChar(s, lo)
    ELSE LET mid == (lo + hi) \div 2
         IN  JoinRange(s, lo, mid) \o JoinRange(s, mid + 1, hi)

split_whitespace_join(s) == JoinRange(s, 1, Len(s))

(***************************************************************************)
(* The degeneracy heuristics: free functions over the response so far.     *)
(***************************************************************************)

\* similar_text_ratio: <<intersection, union>> of the two word sets, the
\* fraction the code returns; 1/1 for two empty texts and 0/1 for one.
similar_text_ratio(text1, text2) ==
    LET words1 == WordSet(text1)
        words2 == WordSet(text2)
    IN  IF words1 = {} /\ words2 = {} THEN <<1, 1>>
        ELSE IF words1 = {} \/ words2 = {} THEN <<0, 1>>
        ELSE <<Cardinality(words1 \cap words2), Cardinality(words1 \cup words2)>>

\* similarity > 0.7, on the fraction.
ExceedsSimilarity(r) == 10 * r[1] > 7 * r[2]

filler_patterns ==
    << "please let me know", "i'm happy to help", "i'm here to help",
       "feel free to ask", "if you have any", "thank you for your patience",
       "is there anything else", "i look forward to", "please feel free",
       "let me know if you", "i hope this helps" >>

RECURSIVE FillerCount(_, _)
FillerCount(text_lower, n) ==
    IF n = 0 THEN 0
    ELSE FillerCount(text_lower, n - 1) + matches_count(text_lower, filler_patterns[n])

detect_filler_loop(text) ==
    FillerCount(to_lowercase(text), Len(filler_patterns)) >= 4

\* text.split(|c| c == '.' || c == '!' || c == '?'): where each piece starts,
\* and the piece that starts there.
SentenceEnds == {".", "!", "?"}

SplitStarts(text) ==
    {1} \cup {k + 1 : k \in {j \in 1..Len(text) : CharAt(text, j) \in SentenceEnds}}

SplitAt(text, a) ==
    LET stops == {k \in a..Len(text) : CharAt(text, k) \in SentenceEnds}
        e == IF stops = {} THEN Len(text)
             ELSE (CHOOSE k \in stops : \A j \in stops : k <= j) - 1
    IN  SubSeq(text, a, e)

detect_sentence_repetition(text) ==
    LET sentences == {a \in SplitStarts(text) : ByteLen(trim(SplitAt(text, a))) > 50}
        normalized(a) == split_whitespace_join(to_lowercase(trim(SplitAt(text, a))))
        tracked == {a \in sentences : ByteLen(normalized(a)) > 40}
        seen(a) == Cardinality({b \in tracked : normalized(b) = normalized(a)})
    IN  IF Cardinality(sentences) < 6 THEN FALSE
        ELSE \E a \in tracked : seen(a) >= 3

\* detect_block_repetition: "true", "false", or "panic" when a slice of the
\* text does not fall on a character boundary.
block_windows == <<100, 150, 200>>

RECURSIVE BlockRepetitionFrom(_, _)
BlockRepetitionFrom(text, w) ==
    LET len == ByteLen(text)
    IN  IF w > Len(block_windows) THEN "false"
        ELSE LET window_size == block_windows[w]
             IN  IF len < window_size * 2 THEN BlockRepetitionFrom(text, w + 1)
                 ELSE IF ~SliceOk(text, len - window_size, len) THEN "panic"
                 ELSE IF contains(ByteSlice(text, 0, len - window_size),
                                  ByteSlice(text, len - window_size, len))
                      THEN "true"
                 ELSE BlockRepetitionFrom(text, w + 1)

detect_block_repetition(text) ==
    IF ByteLen(text) < 200 THEN "false" ELSE BlockRepetitionFrom(text, 1)

detect_prompt_echo(text) ==
    contains(text, "<|im_start|>") \/ contains(text, "<|im_end|>")

(***************************************************************************)
(* Retrieval (vector_search.rs): the query rewriting functions.            *)
(***************************************************************************)

Digits == "0123456789"

AlphanumericChars ==
    {CharAt(UpperLetters, k) : k \in 1..26} \cup {CharAt(LowerLetters, k) : k \in 1..26}
        \cup {CharAt(Digits, k) : k \in 1..10} \cup TwoByteChars

\* char::is_alphanumeric, on the characters the model's queries contain.
IsAlphanumeric(c) == c \in AlphanumericChars

\* str::replace(from, to): every match of from, left to right, not overlapping.
RECURSIVE ReplaceFrom(_, _, _, _)
ReplaceFrom(s, from, to, i) ==
    LET ks == {k \in i..(Len(s) - Len(from) + 1) : SubSeq(s, k, k + Len(from) - 1) = from}
    IN  IF ks = {} THEN SubSeq(s, i, Len(s))
        ELSE LET k0 == CHOOSE k \in ks : \A j \in ks : k <= j
             IN  SubSeq(s, i, k0 - 1) \o to \o ReplaceFrom(s, from, to, k0 + Len(from))

replace(s, from, to) == ReplaceFrom(s, from, to, 1)

fts_operators == <<"OR", "AND", "NOT", "NEAR">>

\* The three replacements of one operator: " op ", " op", "op ".
RemoveOperator(s, op) ==
    replace(replace(replace(s, " " \o op \o " ", " "), " " \o op, " "), op \o " ", " ")

RECURSIVE RemoveOperators(_, _)
RemoveOperators(s, n) ==
    IF n = 0 THEN s ELSE RemoveOperator(RemoveOperators(s, n - 1), fts_operators[n])

fts_special_chars == <<"*", "(", ")", "[", "]", "{", "}", "^", "~", ":", "\"", "'">>

\* str::replace(ch, ""): s without the character ch.
RECURSIVE RemoveChar(_, _)
RemoveChar(s, ch) ==
    IF Len(s) = 0 THEN ""
    ELSE IF Len(s) = 1 THEN IF s = ch THEN "" ELSE s
    ELSE LET h == Len(s) \div 2
         IN  RemoveChar(SubSeq(s, 1, h), ch) \o RemoveChar(SubSeq(s, h + 1, Len(s)), ch)

RECURSIVE RemoveSpecialChars(_, _)
RemoveSpecialChars(s, n) ==
    IF n = 0 THEN s ELSE RemoveChar(RemoveSpecialChars(s, n - 1), fts_special_chars[n])

\* A filter that keeps every character.
KeepEveryChar(s) == s

\* s.chars().filter(|c| c.is_alphanumeric() || c.is_whitespace()).collect()
RECURSIVE KeepAlphanumericOrWhite(_)
KeepAlphanumericOrWhite(s) ==
    IF Len(s) = 0 THEN ""
    ELSE IF Len(s) = 1
         THEN IF IsAlphanumeric(s) \/ s \in WhiteSpace THEN s ELSE ""
    ELSE LET h == Len(s) \div 2
         IN  KeepAlphanumericOrWhite(SubSeq(s, 1, h))
                \o KeepAlphanumericOrWhite(SubSeq(s, h + 1, Len(s)))

\* The longest sanitized query, in characters.
MAX_FTS_QUERY_CHARS == 500

\* sanitize_fts_query: the MATCH argument built from a query.
sanitize_fts_query(query) ==
    LET no_operators == RemoveOperators(query, Len(fts_operators))
        no_specials == RemoveSpecialChars(no_operators, Len(fts_special_chars))
        filtered == KeepAlphanumericOrWhite(no_specials)
        collapsed == split_whitespace_join(filtered)
        limited == IF Len(collapsed) > MAX_FTS_QUERY_CHARS
                   THEN SubSeq(collapsed, 1, MAX_FTS_QUERY_CHARS)
                   ELSE collapsed
    IN  IF Len(trim(limited)) # 0 THEN "\"" \o trim(limited) \o "\"" ELSE "\"\""

expansions ==
    << <<"revenue", <<"income", "earnings", "sales">> >>,
       <<"cost", <<"expense", "expenditure", "spending">> >>,
       <<"profit", <<"earnings", "gain", "margin">> >>,
       <<"growth", <<"increase", "expansion", "rise">> >>,
       <<"decline", <<"decrease", "reduction", "drop">> >>,
       <<"customer", <<"client", "consumer", "buyer">> >>,
       <<"product", <<"item", "goods", "merchandise">> >>,
       <<"service", <<"offering", "solution", "support">> >>,
       <<"company", <<"business", "organization", "corporation">> >>,
       <<"employee", <<"worker", "staff", "personnel">> >>,
       <<"market", <<"industry", "sector", "segment">> >>,
       <<"strategy", <<"plan", "approach", "tactic">> >>,
       <<"risk", <<"threat", "hazard", "danger">> >>,
       <<"opportunity", <<"chance", "prospect", "potential">> >>,
       <<"analysis", <<"examination", "review", "assessment">> >> >>

\* The synonyms pushed for the first n rows of the table.
RECURSIVE ExpandedTerms(_, _)
ExpandedTerms(query_lower, n) ==
    IF n = 0 THEN <<>>
    ELSE ExpandedTerms(query_lower, n - 1)
            \o (IF contains(query_lower, expansions[n][1]) THEN expansions[n][2] ELSE <<>>)

\* [String]::join(sep): the first n terms, then all of them.
RECURSIVE JoinFirst(_, _, _)
JoinFirst(terms, sep, n) ==
    IF n = 0 THEN ""
    ELSE IF n = 1 THEN terms[1]
    ELSE JoinFirst(terms, sep, n - 1) \o sep \o terms[n]

join(terms, sep) == JoinFirst(terms, sep, Len(terms))

\* expand_query: the query followed by the synonyms of the terms it contains.
expand_query(query) ==
    LET synonyms == ExpandedTerms(to_lowercase(query), Len(expansions))
    IN  IF Len(synonyms) > 0 THEN join(<<query>> \o synonyms, " OR ") ELSE query

\* s repeated n times.
RECURSIVE Repeat(_, _)
Repeat(s, n) ==
    IF n = 0 THEN ""
    ELSE IF n = 1 THEN s
    ELSE Repeat(s, n \div 2) \o Repeat(s, n - n \div 2)

(***************************************************************************)
(* Bounds of the model and the constants of the program.                   *)
(***************************************************************************)

\* The calls to generate / generate_streaming one behaviour starts.
MaxCalls == 2

\* max_tokens is drawn from 0..MaxTokensSmall and LongRun.
MaxTokensSmall == 3

LongRun == 32

\* max_tokens of the call whose tokens are one block of 50 characters.
ShortRun == 6

\* The models one behaviour of SpecCache loads.
MaxLoads == 3

\* The calls to the cache one behaviour of SpecCache starts.
MaxOps == 3

SAFE_PROMPT_TOKENS == 7000

\* query_documents: model_cache.generate(&prompt, 2048)
QUERY_MAX_TOKENS == 2048

N_CTX == 8192

PROMPT_BATCH_SIZE == 2048

BUFFER_SIZE == 2

REPETITION_WINDOW == 100

REPETITION_THRESHOLD == 40

(***************************************************************************)
(* Option<T>: None is the empty tuple, Some(v) the tuple of v.             *)
(***************************************************************************)
None == << >>

Some(v) == <<v>>

IsSome(o) == Len(o) = 1

Unwrap(o) == o[1]

(***************************************************************************)
(* The language model, seen from the cache: what str_to_token answers for  *)
(* a prompt and which tokens the sampler draws after it. A token is        *)
(* [eog, piece]: is_eog_token and, for token_to_str, the piece or          *)
(* "undecodable" (the code then takes the empty string).                   *)
(***************************************************************************)
Undecodable == "undecodable"

Tok(piece) == [eog |-> FALSE, piece |-> piece]

EogToken == [eog |-> TRUE, piece |-> ""]

BadToken == [eog |-> FALSE, piece |-> Undecodable]

Blanks == "                                        "

Cycle(seq, i) == seq[(i % Len(seq)) + 1]

DialoguePrompts == {"hi", "mix", "stop", "huge", "nul"}

LongPrompts == {"echo", "block", "filler", "sentence", "similar"}

PoisonPrompts == {"accent"}

RepeatPrompts == {"repeat"}

WindowPrompts == {"full"}

Prompts ==
    DialoguePrompts \cup LongPrompts \cup PoisonPrompts \cup RepeatPrompts
    \cup WindowPrompts

\* DefaultHasher's 64-bit digest of the prompt: one value per prompt of the
\* model, no two of them equal.
hash_prompt(prompt) ==
    CASE prompt = "hi" -> 7401
      [] prompt = "mix" -> 1290
      [] prompt = "stop" -> 5519
      [] prompt = "huge" -> 8803
      [] prompt = "nul" -> 3367
      [] prompt = "echo" -> 2954
      [] prompt = "block" -> 6120
      [] prompt = "filler" -> 4478
      [] prompt = "sentence" -> 9931
      [] prompt = "similar" -> 1846
      [] prompt = "accent" -> 6602
      [] prompt = "repeat" -> 3085
      [] prompt = "full" -> 2217

\* model.str_to_token(prompt, AddBos::Always): Some(number of tokens), or None
\* when tokenization fails.
str_to_token(prompt) ==
    CASE prompt = "nul" -> None
      [] prompt = "hi" -> Some(5)
      [] prompt = "mix" -> Some(SAFE_PROMPT_TOKENS)
      [] prompt = "full" -> Some(SAFE_PROMPT_TOKENS)
      [] prompt = "stop" -> Some(PROMPT_BATCH_SIZE + 1)
      [] prompt = "huge" -> Some(SAFE_PROMPT_TOKENS + 1)
      [] OTHER -> Some(40)

\* A block of 50 characters.
RepeatedBlock == "The same block of fifty characters comes by again "

\* sampler.sample(&context, -1) at iteration i of the loop: the sampler is
\* seeded with a constant and the context holds the prompt and the i tokens
\* sampled so far, so the token is a function of the prompt and i.
sample(prompt, i) ==
    CASE prompt = "hi" -> Tok("a")
      [] prompt = "mix" -> Cycle(<<Tok("ab"), BadToken, Tok("é"), EogToken>>, i)
      [] prompt = "stop" -> Cycle(<<Tok("h"), Tok("i"), Tok("</s>")>>, i)
      [] prompt = "echo" ->
            Cycle(<<Tok("<|im_"), Tok("start|>user says something rather long. ")>>, i)
      [] prompt = "block" -> Tok("The same sentence again and again. ")
      [] prompt = "filler" ->
            Tok("Item " \o ToString(i) \o ": please let me know what you think about it! ")
      [] prompt = "sentence" ->
            IF i % 2 = 0
            THEN Tok("The quarterly revenue grew because the sales team worked hard. ")
            ELSE Tok("A different sentence with its own long text, number "
                     \o ToString(i) \o ". ")
      [] prompt = "similar" ->
            Tok("a b c d e f g h i j k l" \o SubSeq(Blanks, 1, i + 1))
      [] prompt = "accent" -> Tok("éééééééééé" \o "a")
      [] prompt = "repeat" -> Tok(RepeatedBlock)
      [] prompt = "full" -> BadToken
      [] OTHER -> EogToken

is_eog_token(tok) == tok.eog

\* token_to_str(tok, Special::Tokenize).unwrap_or_else(|_| String::new())
token_to_str(tok) == IF tok.piece = Undecodable THEN "" ELSE tok.piece

IsStopMarker(token_str) ==
    \/ contains(token_str, "</s>")
    \/ contains(token_str, "<|endoftext|>")
    \/ contains(token_str, "<|end|>")
    \/ contains(token_str, "<|im_end|>")
    \/ contains(token_str, "<|im_start|>")

(***************************************************************************)
(* The body of the streaming loop between the poll after sampling and the  *)
(* poll before emission (generate_streaming, from the end-of-generation    *)
(* test to the similarity test). c holds the locals of the call, tok the   *)
(* token just sampled. The result is c with the locals updated and         *)
(* outcome: "continue", the reason of a break, or "panic".                 *)
(***************************************************************************)
DegeneracyReasons == {"echo", "block", "filler", "sentence", "similarity"}

\* recent_text after push_str(piece) and the cut to the window.
UpdateRecentText(recent_text, piece) ==
    LET pushed == recent_text \o piece
    IN  IF ByteLen(pushed) > REPETITION_WINDOW
        THEN SkipChars(pushed, ByteLen(pushed) - REPETITION_WINDOW)
        ELSE pushed

\* The four checks made every 10 tokens once the response is long enough.
RepetitionChecks(i, response) ==
    LET len == ByteLen(response)
    IN  IF ~(i % 10 = 0 /\ len > 200) THEN "continue"
        ELSE IF detect_prompt_echo(response) THEN "echo"
        ELSE LET block == IF len > 300
                          THEN detect_block_repetition(response) ELSE "false"
             IN  IF block = "panic" THEN "panic"
                 ELSE IF block = "true" THEN "block"
                 ELSE IF len > 500 /\ detect_filler_loop(response) THEN "filler"
                 ELSE IF len > 400 /\ detect_sentence_repetition(response)
                      THEN "sentence"
                 ELSE "continue"

\* The similarity check: <<outcome, repetition_count>>.
SimilarityCheck(i, response, recent_text, repetition_count) ==
    LET response_len == ByteLen(response)
        earlier_start == response_len - REPETITION_WINDOW * 2
        earlier_end == response_len - REPETITION_WINDOW
    IN  IF ~(i % 10 = 0 /\ response_len > REPETITION_WINDOW * 2)
        THEN <<"continue", repetition_count>>
        ELSE IF ~SliceOk(response, earlier_start, earlier_end)
        THEN <<"panic", repetition_count>>
        ELSE LET earlier_text == ByteSlice(response, earlier_start, earlier_end)
             IN  IF ~(ByteLen(recent_text) >= REPETITION_THRESHOLD
                      /\ ByteLen(earlier_text) >= REPETITION_THRESHOLD)
                 THEN <<"continue", repetition_count>>
                 ELSE IF ExceedsSimilarity(similar_text_ratio(earlier_text, recent_text))
                 THEN IF repetition_count + 1 >= 3
                      THEN <<"similarity", repetition_count + 1>>
                      ELSE <<"continue", repetition_count + 1>>
                 ELSE <<"continue", 0>>

process_token(c, tok) ==
    IF is_eog_token(tok) THEN [c EXCEPT !.outcome = "eog"]
    ELSE IF IsStopMarker(token_to_str(tok)) THEN [c EXCEPT !.outcome = "marker"]
    ELSE LET piece == token_to_str(tok)
             response == c.response \o piece
             recent_text == UpdateRecentText(c.recent_text, piece)
             pushed == [c EXCEPT !.response = response,
                                 !.token_buffer = c.token_buffer \o piece,
                                 !.tokens_generated = c.tokens_generated + 1,
                                 !.recent_text = recent_text]
             checks == RepetitionChecks(c.i, response)
         IN  IF checks # "continue" THEN [pushed EXCEPT !.outcome = checks]
             ELSE LET sim == SimilarityCheck(c.i, response, recent_text,
                                             c.repetition_count)
                  IN  [pushed EXCEPT !.outcome = sim[1], !.repetition_count = sim[2]]

(***************************************************************************)
(* State.                                                                  *)
(*                                                                         *)
(* ModelCache: current_model, current_path, preload_status and             *)
(* stop_generation; model_lock is the holder of the current_model mutex    *)
(* (the other mutexes are held for one statement only).                    *)
(* pc, arg, local_model: where each thread stands, the path it was called  *)
(* with, the model it has loaded and not stored yet.                       *)
(* call: the locals of the generate / generate_streaming call that runs    *)
(* under the model lock.                                                   *)
(* obs, stopreq, calls, alive, loads are history: what the callback        *)
(* received, what was sampled, what the call returned, which stop requests *)
(* were made, which model instances are allocated.                         *)
(* result is what the last get_or_load of each thread returned.            *)
(* poisoned is the set of the mutexes a panicking holder has poisoned.     *)
(* search is the hybrid_search call of SpecSearch.                         *)
(* embed is the generate_embeddings_parallel call of SpecEmbed.            *)
(* chunker is the chunk_text call of SpecChunk.                            *)
(* store is the document store of SpecStore.                               *)
(* cosine is the cosine_similarity call of SpecCosine.                     *)
(* scenario names the inputs of a behaviour: "dialogue" is up to MaxCalls  *)
(* calls with short answers, "long" is one call of LongRun tokens whose    *)
(* answer degenerates, "poison" is a call that panics in the loop and a    *)
(* call after it, "repeat" is one call of ShortRun tokens that are the     *)
(* same block, "window" is one call of the 2048 tokens query_documents     *)
(* asks for on a prompt of 7000 tokens, "cache" (SpecCache) is one-token   *)
(* calls of generate, "live"                                               *)
(* (SpecCacheLive) is up to MaxCalls calls on a cold or a loaded cache.    *)
(***************************************************************************)
VARIABLES pc, model_lock, current_model, current_path, preload_status,
          stop_generation, call, obs, stopreq, calls, scenario,
          arg, local_model, alive, loads, result, poisoned, search, embed,
          chunker, store, cosine

vars == <<pc, model_lock, current_model, current_path, preload_status,
          stop_generation, call, obs, stopreq, calls, scenario,
          arg, local_model, alive, loads, result, poisoned, search, embed,
          chunker, store, cosine>>

\* The command threads, and the thread preload_model spawns.
Threads == {"t1", "t2"}

Preloader == "bg"

NoThread == "none"

Paths == {"A", "B"}

\* CachedModel::load(path): a new instance, its prompt cache empty.
CachedModel(id, path) ==
    [id |-> id, path |-> path, prompt_cache |-> None, cache_enabled |-> TRUE]

PromptCacheEntry(hash, n_tokens, cache_hits) ==
    [hash |-> hash, n_tokens |-> n_tokens, cache_hits |-> cache_hits]

NoCall ==
    [kind |-> "none", prompt |-> "", max_tokens |-> 0, cache_hit |-> FALSE,
     n_tokens |-> 0, chunk_start |-> 0, ctx |-> 0, i |-> 0, n_cur |-> 0,
     new_token |-> EogToken, response |-> "", token_buffer |-> "",
     recent_text |-> "", repetition_count |-> 0, tokens_generated |-> 0,
     outcome |-> "continue", cache_guard |-> FALSE]

NoObs ==
    [caller |-> NoThread, status |-> "none", error |-> "", text |-> "",
     reason |-> "", emitted |-> "", batches |-> 0, sampled |-> 0, appended |-> 0,
     pre_model |-> None, pre_path |-> None,
     sampled_after_request |-> 0, after_stop_sampled |-> 0, after_stop_appended |-> 0]

\* The prompt cache of the model the cache holds.
PromptCache == Unwrap(current_model).prompt_cache

WithPromptCache(entry) ==
    Some([Unwrap(current_model) EXCEPT !.prompt_cache = entry])

(***************************************************************************)
(* The pieces of generate / generate_streaming that decide its contract.   *)
(***************************************************************************)

\* The size guard with the ceiling itself refused.
PromptTooLargeFromCeiling(n_tokens) == n_tokens >= SAFE_PROMPT_TOKENS

\* if tokens.len() > 7000 { bail!("Prompt is too large ...") }
PromptTooLarge(n_tokens) == n_tokens > SAFE_PROMPT_TOKENS

\* The loop with one iteration too many.
LoopContinuesInclusive(i, max_tokens) == i <= max_tokens

\* for i in 0..max_tokens
LoopContinues(i, max_tokens) == i < max_tokens

\* The prompt-cache test at the head of the call.
IsCacheHit(cache, prompt_hash) ==
    IsSome(cache) /\ Unwrap(cache).hash = prompt_hash

\* The cache tracking with a hit that is not counted.
UpdatedCacheEntryUncounted(cache, cache_hit, prompt_hash, n_tokens) ==
    IF cache_hit THEN cache
    ELSE Some(PromptCacheEntry(prompt_hash, n_tokens, 0))

\* "Update cache tracking": the entry after the prompt has been ingested.
UpdatedCacheEntry(cache, cache_hit, prompt_hash, n_tokens) ==
    IF cache_hit /\ IsSome(cache)
    THEN Some([Unwrap(cache) EXCEPT !.cache_hits = Unwrap(cache).cache_hits + 1])
    ELSE IF cache_hit THEN cache
    ELSE Some(PromptCacheEntry(prompt_hash, n_tokens, 0))

\* if token_buffer.chars().count() >= BUFFER_SIZE || i == max_tokens - 1
BufferIsDue(token_buffer, i, max_tokens) ==
    Len(token_buffer) >= BUFFER_SIZE \/ i = max_tokens - 1

\* flag.load(Ordering::Relaxed)
StopFlagSet == stop_generation

\* get_cache_stats: <<has_cache, hits>> (the hit rate is derived from hits).
get_cache_stats(model) ==
    IF IsSome(model.prompt_cache)
    THEN <<TRUE, Unwrap(model.prompt_cache).cache_hits>>
    ELSE <<FALSE, 0>>

(***************************************************************************)
(* Spec: generate and generate_streaming, step by step.                    *)
(***************************************************************************)
PromptChoices ==
    CASE scenario = "long" -> LongPrompts
      [] scenario = "poison" -> PoisonPrompts
      [] scenario = "repeat" -> RepeatPrompts
      [] scenario = "window" -> WindowPrompts
      [] scenario \in {"cache", "live"} -> {"hi"}
      [] OTHER -> DialoguePrompts

MaxTokensChoices ==
    CASE scenario = "long" -> {LongRun}
      [] scenario = "poison" -> {1, LongRun}
      [] scenario = "repeat" -> {ShortRun}
      [] scenario = "window" -> {QUERY_MAX_TOKENS}
      [] scenario \in {"cache", "live"} -> {1}
      [] OTHER -> 0..MaxTokensSmall

CallBudget ==
    CASE scenario \in {"long", "repeat", "window"} -> 1
      [] scenario = "cache" -> MaxOps
      [] scenario = "poison" -> MaxCalls
      [] OTHER -> MaxCalls

\* No search is running.
NoSearch ==
    [pc |-> "idle", query |-> "", top_k |-> 0, corpus |-> <<>>,
     semantic_results |-> <<>>, expanded_query |-> "", fts_query |-> "",
     keyword_results |-> <<>>, failed |-> "none", branch |-> "none",
     candidates |-> <<>>, outcome |-> "none", results |-> <<>>]

\* No call of generate_embeddings_parallel is running.
NoEmbedding ==
    [pc |-> "idle", texts |-> <<>>, batch_size |-> 0, num_batches |-> 0,
     slots |-> <<>>, failed |-> {}, completed |-> <<>>, processed |-> 0,
     pending |-> <<>>, progress |-> <<>>,
     outcome |-> "none", error |-> 0, all_embeddings |-> <<>>]

\* No call of chunk_text is running.
NoChunking == [pc |-> "idle"]

\* The document store is not open.
NoStore == [pc |-> "idle"]

\* No call of cosine_similarity is running.
NoCosine == [pc |-> "idle"]

\* The variables of the model cache.
cacheVars ==
    <<pc, model_lock, current_model, current_path, preload_status, stop_generation,
      call, obs, stopreq, calls, scenario, arg, local_model, alive, loads, result,
      poisoned>>

\* The variables of the other components, all but one of them.
notSearch == <<cacheVars, embed, chunker, store, cosine>>

notEmbed == <<cacheVars, search, chunker, store, cosine>>

notChunker == <<cacheVars, search, embed, store, cosine>>

notStore == <<cacheVars, search, embed, chunker, cosine>>

notCosine == <<cacheVars, search, embed, chunker, store>>

cacheFrame ==
    <<arg, local_model, alive, loads, result, preload_status, scenario, search, embed,
      chunker, store, cosine>>

cacheOnly == <<cacheFrame, poisoned>>

\* A streaming request of thread t is in flight and has emitted nothing yet.
BeforeFirstEmission(t) ==
    \/ pc[t] \in {"requested", "lock_model"}
    \/ /\ model_lock = t
       /\ call.kind = "streaming"
       /\ obs.status = "running"
       /\ obs.emitted = ""

\* ModelCache::stop_generation
StopGeneration ==
    /\ stop_generation' = TRUE
    /\ stopreq' = [t \in Threads |-> stopreq[t] \/ BeforeFirstEmission(t)]
    /\ obs' = IF stop_generation THEN obs
              ELSE [obs EXCEPT !.after_stop_sampled = 0, !.after_stop_appended = 0]
    /\ UNCHANGED <<pc, model_lock, current_model, current_path, call, calls>>
    /\ UNCHANGED cacheOnly

\* query_documents_streaming, up to its call of ModelCache::generate_streaming
\* (the call of the "window" scenario is that of query_documents: generate).
RequestStreaming(t) ==
    /\ pc[t] = "idle"
    /\ scenario # "window"
    /\ calls < CallBudget
    /\ pc' = [pc EXCEPT ![t] = "requested"]
    /\ calls' = calls + 1
    /\ stopreq' = [stopreq EXCEPT ![t] = FALSE]
    /\ UNCHANGED <<model_lock, current_model, current_path, stop_generation, call, obs>>
    /\ UNCHANGED cacheOnly

\* ModelCache::generate_streaming: reset_stop_flag(), before the model lock.
EnterGenerateStreaming(t) ==
    /\ pc[t] = "requested"
    /\ stop_generation' = FALSE
    /\ obs' = [obs EXCEPT !.after_stop_sampled = 0, !.after_stop_appended = 0]
    /\ pc' = [pc EXCEPT ![t] = "lock_model"]
    /\ UNCHANGED <<model_lock, current_model, current_path, call, stopreq, calls>>
    /\ UNCHANGED cacheOnly

\* A failure that reaches the callback first.
FailAfterDelivery(t, c, ob, error) ==
    /\ call' = c
    /\ obs' = [ob EXCEPT !.status = "Err", !.error = error, !.batches = ob.batches + 1]
    /\ pc' = [pc EXCEPT ![t] = "ret"]

\* A failure after which the call ingests the prompt again.
FailAndRetry(t, c, ob, error) ==
    /\ call' = [c EXCEPT !.chunk_start = 0, !.ctx = 0]
    /\ obs' = [ob EXCEPT !.status = "Err", !.error = error]
    /\ pc' = [pc EXCEPT ![t] = "ingest"]

\* A lock acquisition that propagates the poison error: lock().unwrap().
LockResultUnwrapped(mutex) == IF mutex \in poisoned THEN "panic" ELSE "guard"

\* mutex.lock().unwrap_or_else(|poisoned| poisoned.into_inner()) and
\* safe_lock!: the guard, taken out of the poison error when there is one.
LockResult(mutex) == IF mutex \in poisoned THEN "recovered" ELSE "guard"

\* The call returns Err(error): nothing more of it runs.
Fail(t, c, ob, error) ==
    /\ call' = c
    /\ obs' = [ob EXCEPT !.status = "Err", !.error = error]
    /\ pc' = [pc EXCEPT ![t] = "ret"]

\* The model lock is taken and the call runs up to the size guard:
\* max_tokens validation, the prompt-cache test, context creation,
\* tokenization, the 7000-token guard.
Begin(t, kind, prompt, max_tokens) ==
    LET c == [NoCall EXCEPT !.kind = kind, !.prompt = prompt, !.max_tokens = max_tokens]
        ob == [NoObs EXCEPT !.caller = t, !.status = "running",
                            !.pre_model = current_model, !.pre_path = current_path]
        tokens == str_to_token(prompt)
    IN  /\ model_lock = NoThread
        /\ model_lock' = t
        /\ IF LockResult("current_model") = "panic"
           THEN /\ call' = c
                /\ obs' = [ob EXCEPT !.status = "Panic", !.error = "PoisonError"]
                /\ pc' = [pc EXCEPT ![t] = "ret"]
           ELSE IF ~IsSome(current_model) THEN Fail(t, c, ob, "NoModelLoaded")
           ELSE IF max_tokens = 0 THEN Fail(t, c, ob, "InvalidMaxTokens")
           ELSE \E context_ok \in BOOLEAN :
                  IF ~context_ok THEN Fail(t, c, ob, "ContextCreationFailed")
                  ELSE IF ~IsSome(tokens) THEN Fail(t, c, ob, "TokenizationFailed")
                  ELSE IF PromptTooLarge(Unwrap(tokens))
                       THEN Fail(t, [c EXCEPT !.n_tokens = Unwrap(tokens)], ob,
                                 "PromptTooLarge")
                  ELSE /\ call' = [c EXCEPT
                              !.n_tokens = Unwrap(tokens),
                              !.cache_guard = TRUE,
                              !.cache_hit = Unwrap(current_model).cache_enabled
                                            /\ IsCacheHit(PromptCache, hash_prompt(prompt))]
                       /\ obs' = ob
                       /\ pc' = [pc EXCEPT ![t] = "ingest"]
        /\ UNCHANGED <<current_model, current_path, stop_generation, stopreq>>
        /\ UNCHANGED cacheOnly

\* ModelCache::generate_streaming, from the model lock on.
StartStreaming(t) ==
    /\ pc[t] = "lock_model"
    /\ \E prompt \in PromptChoices, max_tokens \in MaxTokensChoices :
          Begin(t, "streaming", prompt, max_tokens)
    /\ UNCHANGED calls

\* ModelCache::generate
StartGenerate(t) ==
    /\ pc[t] = "idle"
    /\ calls < CallBudget
    /\ calls' = calls + 1
    /\ \E prompt \in PromptChoices, max_tokens \in MaxTokensChoices :
          Begin(t, "generate", prompt, max_tokens)

DecodeOutcomes == {"ok", "BatchAddFailed", "DecodeFailed"}

\* One batch of the prompt: batch.add for each token, then context.decode.
IngestBatch(t) ==
    /\ pc[t] = "ingest"
    /\ \E outcome \in DecodeOutcomes :
          IF outcome # "ok" THEN Fail(t, call, obs, outcome)
          ELSE LET chunk_end == IF call.chunk_start + PROMPT_BATCH_SIZE < call.n_tokens
                                THEN call.chunk_start + PROMPT_BATCH_SIZE
                                ELSE call.n_tokens
               IN  /\ call' = [call EXCEPT !.ctx = chunk_end,
                                           !.chunk_start = call.chunk_start + PROMPT_BATCH_SIZE]
                   /\ obs' = obs
                   /\ pc' = [pc EXCEPT ![t] = IF chunk_end = call.n_tokens
                                              THEN "track" ELSE "ingest"]
    /\ UNCHANGED <<model_lock, current_model, current_path, stop_generation, stopreq, calls>>
    /\ UNCHANGED cacheOnly

\* The guard of the prompt cache stays with the call.
KeepCacheGuard(c) == c

\* drop(cache_guard)
DropCacheGuard(c) == [c EXCEPT !.cache_guard = FALSE]

\* "Update cache tracking", drop(cache_guard), and the head of the loop.
UpdateCacheTracking(t) ==
    /\ pc[t] = "track"
    /\ current_model' = WithPromptCache(
            UpdatedCacheEntry(PromptCache, call.cache_hit,
                              hash_prompt(call.prompt), call.n_tokens))
    /\ call' = DropCacheGuard([call EXCEPT !.i = 0, !.n_cur = call.n_tokens])
    /\ IF LoopContinues(0, call.max_tokens)
       THEN /\ pc' = [pc EXCEPT ![t] = IF call.kind = "streaming"
                                       THEN "pre_sample" ELSE "g_sample"]
            /\ obs' = obs
       ELSE /\ pc' = [pc EXCEPT ![t] = "finish"]
            /\ obs' = [obs EXCEPT !.reason = "max_tokens"]
    /\ UNCHANGED <<model_lock, current_path, stop_generation, stopreq, calls>>
    /\ UNCHANGED cacheOnly

\* if !token_buffer.is_empty() { on_token_batch(&token_buffer)?; } break;
\* c and ob are the locals and the history at the break.
FlushAndBreak(t, c, ob, reason) ==
    /\ call' = c
    /\ IF c.token_buffer = ""
       THEN /\ obs' = [ob EXCEPT !.reason = reason]
            /\ pc' = [pc EXCEPT ![t] = "finish"]
       ELSE \E callback_ok \in BOOLEAN :
              LET delivered == [ob EXCEPT !.emitted = ob.emitted \o c.token_buffer,
                                          !.batches = ob.batches + 1,
                                          !.reason = reason]
              IN  IF callback_ok
                  THEN /\ obs' = delivered
                       /\ pc' = [pc EXCEPT ![t] = "finish"]
                  ELSE /\ obs' = [delivered EXCEPT !.status = "Err",
                                                   !.error = "CallbackFailed"]
                       /\ pc' = [pc EXCEPT ![t] = "ret"]

\* break without flushing.
BreakOnly(t, reason) ==
    /\ call' = call
    /\ obs' = [obs EXCEPT !.reason = reason]
    /\ pc' = [pc EXCEPT ![t] = "finish"]

Goto(t, where) ==
    /\ pc' = [pc EXCEPT ![t] = where]
    /\ UNCHANGED <<call, obs>>

loopFrame == <<model_lock, current_model, current_path, stop_generation, stopreq, calls>>

\* "Check stop flag FIRST before any processing"
PreSampleCheck(t) ==
    /\ pc[t] = "pre_sample"
    /\ IF StopFlagSet THEN FlushAndBreak(t, call, obs, "cancel_pre_sample")
       ELSE Goto(t, "sample")
    /\ UNCHANGED loopFrame
    /\ UNCHANGED cacheOnly

\* let new_token = sampler.sample(&context, -1);
Sample(t) ==
    /\ pc[t] = "sample"
    /\ call' = [call EXCEPT !.new_token = sample(call.prompt, call.i)]
    /\ obs' = [obs EXCEPT
          !.sampled = obs.sampled + 1,
          !.after_stop_sampled = obs.after_stop_sampled + (IF stop_generation THEN 1 ELSE 0),
          !.sampled_after_request = obs.sampled_after_request + (IF stopreq[t] THEN 1 ELSE 0)]
    /\ pc' = [pc EXCEPT ![t] = "post_sample"]
    /\ UNCHANGED loopFrame
    /\ UNCHANGED cacheOnly

\* The loop without the poll after sampling.
PostSampleCheckSkipped(t) ==
    /\ pc[t] = "post_sample"
    /\ Goto(t, "token")
    /\ UNCHANGED loopFrame
    /\ UNCHANGED cacheOnly

\* "Check IMMEDIATELY after token generation"
PostSampleCheck(t) ==
    /\ pc[t] = "post_sample"
    /\ IF StopFlagSet THEN FlushAndBreak(t, call, obs, "cancel_post_sample")
       ELSE Goto(t, "token")
    /\ UNCHANGED loopFrame
    /\ UNCHANGED cacheOnly

\* A break on a degeneracy heuristic that leaves the buffer behind.
DegeneracyBreakWithoutFlush(t, c, ob, reason) ==
    /\ call' = c
    /\ obs' = [ob EXCEPT !.reason = reason]
    /\ pc' = [pc EXCEPT ![t] = "finish"]

\* A break of the loop on a degeneracy heuristic.
DegeneracyBreak(t, c, ob, reason) == FlushAndBreak(t, c, ob, reason)

\* From the end-of-generation test to the similarity test.
ProcessToken(t) ==
    /\ pc[t] = "token"
    /\ LET d == process_token(call, call.new_token)
           c == [d EXCEPT !.outcome = "continue"]
           pushed == [obs EXCEPT
               !.appended = obs.appended + 1,
               !.after_stop_appended = obs.after_stop_appended
                                       + (IF stop_generation THEN 1 ELSE 0)]
       IN  IF d.outcome \in {"eog", "marker"} THEN FlushAndBreak(t, c, obs, d.outcome)
           ELSE IF d.outcome \in DegeneracyReasons
                THEN DegeneracyBreak(t, c, pushed, d.outcome)
           ELSE IF d.outcome = "panic"
                THEN /\ call' = c
                     /\ obs' = [pushed EXCEPT !.status = "Panic",
                                               !.error = "SliceOffCharBoundary"]
                     /\ pc' = [pc EXCEPT ![t] = "ret"]
           ELSE /\ call' = c
                /\ obs' = pushed
                /\ pc' = [pc EXCEPT ![t] = "pre_buffer"]
    /\ UNCHANGED loopFrame
    /\ UNCHANGED cacheOnly

\* "Check before buffer emission for maximum responsiveness"
PreBufferCheck(t) ==
    /\ pc[t] = "pre_buffer"
    /\ IF StopFlagSet THEN FlushAndBreak(t, call, obs, "cancel_pre_buffer")
       ELSE Goto(t, "emit")
    /\ UNCHANGED loopFrame
    /\ UNCHANGED cacheOnly

\* The emission of the buffer when it is due.
EmitBuffer(t) ==
    /\ pc[t] = "emit"
    /\ IF BufferIsDue(call.token_buffer, call.i, call.max_tokens)
       THEN \E callback_ok \in BOOLEAN :
              LET delivered == [obs EXCEPT !.emitted = obs.emitted \o call.token_buffer,
                                           !.batches = obs.batches + 1]
              IN  IF callback_ok
                  THEN /\ call' = [call EXCEPT !.token_buffer = ""]
                       /\ obs' = delivered
                       /\ pc' = [pc EXCEPT ![t] = "post_buffer"]
                  ELSE Fail(t, call, delivered, "CallbackFailed")
       ELSE Goto(t, "post_buffer")
    /\ UNCHANGED loopFrame
    /\ UNCHANGED cacheOnly

\* "Check again after buffer emission": a break, the buffer is not flushed.
PostBufferCheck(t) ==
    /\ pc[t] = "post_buffer"
    /\ IF StopFlagSet THEN BreakOnly(t, "cancel_post_buffer")
       ELSE Goto(t, "decode")
    /\ UNCHANGED loopFrame
    /\ UNCHANGED cacheOnly

\* batch.add(new_token, n_cur, ..), context.decode, n_cur += 1, next i.
DecodeToken(t) ==
    /\ pc[t] = "decode"
    /\ \E outcome \in DecodeOutcomes :
          IF outcome # "ok" THEN Fail(t, call, obs, outcome)
          ELSE /\ call' = [call EXCEPT !.ctx = call.ctx + 1,
                                       !.n_cur = call.n_cur + 1,
                                       !.i = call.i + 1]
               /\ IF LoopContinues(call.i + 1, call.max_tokens)
                  THEN /\ pc' = [pc EXCEPT ![t] = IF call.kind = "streaming"
                                                  THEN "pre_sample" ELSE "g_sample"]
                       /\ obs' = obs
                  ELSE /\ pc' = [pc EXCEPT ![t] = "finish"]
                       /\ obs' = [obs EXCEPT !.reason = "max_tokens"]
    /\ UNCHANGED loopFrame
    /\ UNCHANGED cacheOnly

\* generate: sample, the end-of-generation test, response.push_str(&piece).
GenerateSample(t) ==
    /\ pc[t] = "g_sample"
    /\ LET tok == sample(call.prompt, call.i)
           sampled == [obs EXCEPT !.sampled = obs.sampled + 1]
       IN  IF is_eog_token(tok)
           THEN /\ call' = [call EXCEPT !.new_token = tok]
                /\ obs' = [sampled EXCEPT !.reason = "eog"]
                /\ pc' = [pc EXCEPT ![t] = "finish"]
           ELSE /\ call' = [call EXCEPT !.new_token = tok,
                                        !.response = call.response \o token_to_str(tok)]
                /\ obs' = [sampled EXCEPT !.appended = obs.appended + 1]
                /\ pc' = [pc EXCEPT ![t] = "decode"]
    /\ UNCHANGED loopFrame
    /\ UNCHANGED cacheOnly

\* After the loop: get_cache_stats for the log, which waits for the mutex of
\* the prompt cache, then Ok(response).
Finish(t) ==
    /\ pc[t] = "finish"
    /\ ~call.cache_guard
    /\ obs' = [obs EXCEPT !.status = "Ok", !.text = call.response]
    /\ pc' = [pc EXCEPT ![t] = "ret"]
    /\ UNCHANGED <<call>>
    /\ UNCHANGED loopFrame
    /\ UNCHANGED cacheOnly

\* The call returns (or unwinds): the model guard is dropped, and a guard
\* dropped by a panicking thread poisons its mutex.
Return(t) ==
    /\ pc[t] = "ret"
    /\ model_lock = t
    /\ model_lock' = NoThread
    /\ pc' = [pc EXCEPT ![t] = "idle"]
    /\ call' = NoCall
    /\ obs' = NoObs
    /\ stopreq' = [stopreq EXCEPT ![t] = FALSE]
    /\ poisoned' = IF obs.status = "Panic"
                   THEN poisoned \cup {"current_model"} ELSE poisoned
    /\ UNCHANGED <<current_model, current_path, stop_generation, calls>>
    /\ UNCHANGED cacheFrame

\* ModelCache::invalidate_prompt_cache
InvalidatePromptCache ==
    /\ model_lock = NoThread
    /\ IsSome(current_model)
    /\ IsSome(PromptCache)
    /\ current_model' = WithPromptCache(None)
    /\ UNCHANGED <<pc, model_lock, current_path, stop_generation, call, obs, stopreq, calls>>
    /\ UNCHANGED cacheOnly

Init ==
    /\ pc = [t \in Threads \cup {Preloader} |-> "idle"]
    /\ model_lock = NoThread
    /\ \/ current_model = None /\ current_path = None /\ alive = {} /\ loads = 0
       \/ /\ current_model = Some(CachedModel(1, "A"))
          /\ current_path = Some("A")
          /\ alive = {1}
          /\ loads = 1
    /\ preload_status = "NotStarted"
    /\ stop_generation = FALSE
    /\ call = NoCall
    /\ obs = NoObs
    /\ stopreq = [t \in Threads |-> FALSE]
    /\ calls = 0
    /\ scenario \in {"dialogue", "long", "poison", "repeat", "window"}
    /\ arg = [t \in Threads \cup {Preloader} |-> "A"]
    /\ local_model = [t \in Threads \cup {Preloader} |-> None]
    /\ result = [t \in Threads |-> "none"]
    /\ poisoned = {}
    /\ search = NoSearch
    /\ embed = NoEmbedding
    /\ chunker = NoChunking
    /\ store = NoStore
    /\ cosine = NoCosine

Next ==
    \/ StopGeneration
    \/ InvalidatePromptCache
    \/ \E t \in Threads :
          \/ RequestStreaming(t)
          \/ EnterGenerateStreaming(t)
          \/ StartStreaming(t)
          \/ StartGenerate(t)
          \/ IngestBatch(t)
          \/ UpdateCacheTracking(t)
          \/ PreSampleCheck(t)
          \/ Sample(t)
          \/ PostSampleCheck(t)
          \/ ProcessToken(t)
          \/ PreBufferCheck(t)
          \/ EmitBuffer(t)
          \/ PostBufferCheck(t)
          \/ DecodeToken(t)
          \/ GenerateSample(t)
          \/ Finish(t)
          \/ Return(t)

Spec == Init /\ [][Next]_vars

(***************************************************************************)
(* SpecCache: get_or_load, preload_model, cancel_preload, clear and        *)
(* generate called from concurrent threads. Each action is one critical    *)
(* section of the code, or the load between two of them.                   *)
(***************************************************************************)
genOnly ==
    <<stop_generation, call, obs, stopreq, scenario, poisoned, search, embed,
      chunker, store, cosine>>

\* The ids of the model instances a slot holds.
Held(slot) == IF IsSome(slot) THEN {Unwrap(slot).id} ELSE {}

\* get_or_load(path) is called.
CallGetOrLoad(t, path) ==
    /\ pc[t] = "idle"
    /\ pc' = [pc EXCEPT ![t] = "gol_check"]
    /\ arg' = [arg EXCEPT ![t] = path]
    /\ UNCHANGED <<model_lock, current_model, current_path, preload_status,
                   local_model, alive, loads, result>>
    /\ calls < CallBudget
    /\ calls' = calls + 1
    /\ UNCHANGED genOnly

\* The path test that never finds the model.
PathNeverMatches(cached_path, path) == FALSE

\* "Check if we already have this model loaded"
PathMatches(cached_path, path) == IsSome(cached_path) /\ Unwrap(cached_path) = path

GetOrLoadCheck(t) ==
    /\ pc[t] = "gol_check"
    /\ IF PathMatches(current_path, arg[t])
       THEN /\ pc' = [pc EXCEPT ![t] = "idle"]
            /\ result' = [result EXCEPT ![t] = "cached"]
       ELSE /\ pc' = [pc EXCEPT ![t] = "gol_load"]
            /\ result' = result
    /\ UNCHANGED <<model_lock, current_model, current_path, preload_status,
                   arg, local_model, alive, loads>>
    /\ UNCHANGED <<genOnly, calls>>

\* CachedModel::load(path) in thread t: an error, or a new instance that the
\* thread owns until it stores it.
LoadInto(t) ==
    /\ loads < MaxLoads
    /\ loads' = loads + 1
    /\ local_model' = [local_model EXCEPT ![t] = Some(CachedModel(loads + 1, arg[t]))]
    /\ alive' = alive \cup {loads + 1}

\* A store that does not wait for the model lock.
StoreModelUnlocked(t) ==
    /\ current_model' = local_model[t]
    /\ alive' = alive \ Held(current_model)
    /\ local_model' = [local_model EXCEPT ![t] = None]

\* *slot = Some(model) under the model lock: the old instance is dropped.
StoreModel(t) ==
    /\ model_lock = NoThread
    /\ current_model' = local_model[t]
    /\ alive' = alive \ Held(current_model)
    /\ local_model' = [local_model EXCEPT ![t] = None]

\* let model = CachedModel::load(path)?;
GetOrLoadLoad(t) ==
    /\ pc[t] = "gol_load"
    /\ \/ /\ LoadInto(t)
          /\ pc' = [pc EXCEPT ![t] = "gol_store_model"]
          /\ result' = result
       \/ /\ pc' = [pc EXCEPT ![t] = "idle"]
          /\ result' = [result EXCEPT ![t] = "LoadFailed"]
          /\ UNCHANGED <<local_model, alive, loads>>
    /\ UNCHANGED <<model_lock, current_model, current_path, preload_status, arg>>
    /\ UNCHANGED <<genOnly, calls>>

\* *self.current_model.lock() = Some(model);
GetOrLoadStoreModel(t) ==
    /\ pc[t] = "gol_store_model"
    /\ StoreModel(t)
    /\ pc' = [pc EXCEPT ![t] = "gol_store_path"]
    /\ UNCHANGED <<model_lock, current_path, preload_status, arg, loads, result>>
    /\ UNCHANGED <<genOnly, calls>>

\* *self.current_path.lock() = Some(path.to_string()); Ok("loaded")
GetOrLoadStorePath(t) ==
    /\ pc[t] = "gol_store_path"
    /\ current_path' = Some(arg[t])
    /\ pc' = [pc EXCEPT ![t] = "idle"]
    /\ result' = [result EXCEPT ![t] = "loaded"]
    /\ UNCHANGED <<model_lock, current_model, preload_status, arg, local_model,
                   alive, loads>>
    /\ UNCHANGED <<genOnly, calls>>

\* preload_model(path): the status becomes Loading and the thread is spawned.
PreloadModel(t, path) ==
    /\ pc[t] = "idle"
    /\ pc[Preloader] = "idle"
    /\ preload_status' = "Loading"
    /\ arg' = [arg EXCEPT ![Preloader] = path]
    /\ pc' = [pc EXCEPT ![Preloader] = "bg_load"]
    /\ UNCHANGED <<model_lock, current_model, current_path, local_model, alive,
                   loads, result>>
    /\ calls < CallBudget
    /\ calls' = calls + 1
    /\ UNCHANGED genOnly

\* The spawned thread: match CachedModel::load(&path)
PreloadLoad ==
    /\ pc[Preloader] = "bg_load"
    /\ \/ /\ LoadInto(Preloader)
          /\ pc' = [pc EXCEPT ![Preloader] = "bg_store_model"]
          /\ preload_status' = preload_status
       \/ /\ pc' = [pc EXCEPT ![Preloader] = "idle"]
          /\ preload_status' = "Failed"
          /\ UNCHANGED <<local_model, alive, loads>>
    /\ UNCHANGED <<model_lock, current_model, current_path, arg, result>>
    /\ UNCHANGED <<genOnly, calls>>

PreloadStoreModel ==
    /\ pc[Preloader] = "bg_store_model"
    /\ StoreModel(Preloader)
    /\ pc' = [pc EXCEPT ![Preloader] = "bg_store_path"]
    /\ UNCHANGED <<model_lock, current_path, preload_status, arg, loads, result>>
    /\ UNCHANGED <<genOnly, calls>>

PreloadStorePath ==
    /\ pc[Preloader] = "bg_store_path"
    /\ current_path' = Some(arg[Preloader])
    /\ pc' = [pc EXCEPT ![Preloader] = "bg_status"]
    /\ UNCHANGED <<model_lock, current_model, preload_status, arg, local_model,
                   alive, loads, result>>
    /\ UNCHANGED <<genOnly, calls>>

PreloadSetLoaded ==
    /\ pc[Preloader] = "bg_status"
    /\ preload_status' = "Loaded"
    /\ pc' = [pc EXCEPT ![Preloader] = "idle"]
    /\ UNCHANGED <<model_lock, current_model, current_path, arg, local_model,
                   alive, loads, result>>
    /\ UNCHANGED <<genOnly, calls>>

\* cancel_preload
CancelPreload(t) ==
    /\ pc[t] = "idle"
    /\ preload_status' = "Cancelled"
    /\ UNCHANGED <<pc, model_lock, current_model, current_path, arg, local_model,
                   alive, loads, result>>
    /\ calls < CallBudget
    /\ calls' = calls + 1
    /\ UNCHANGED genOnly

\* clear: *current_model = None under the model lock ..
ClearModel(t) ==
    /\ pc[t] = "idle"
    /\ model_lock = NoThread
    /\ current_model' = None
    /\ alive' = alive \ Held(current_model)
    /\ pc' = [pc EXCEPT ![t] = "clear_path"]
    /\ UNCHANGED <<model_lock, current_path, preload_status, arg, local_model,
                   loads, result>>
    /\ calls < CallBudget
    /\ calls' = calls + 1
    /\ UNCHANGED genOnly

\* .. then *current_path = None.
ClearPath(t) ==
    /\ pc[t] = "clear_path"
    /\ current_path' = None
    /\ pc' = [pc EXCEPT ![t] = "idle"]
    /\ UNCHANGED <<model_lock, current_model, preload_status, arg, local_model,
                   alive, loads, result>>
    /\ UNCHANGED <<genOnly, calls>>

\* The cache as ModelCache::new leaves it, nothing running.
ColdCache ==
    /\ pc = [t \in Threads \cup {Preloader} |-> "idle"]
    /\ model_lock = NoThread
    /\ current_model = None
    /\ current_path = None
    /\ preload_status = "NotStarted"
    /\ stop_generation = FALSE
    /\ call = NoCall
    /\ obs = NoObs
    /\ stopreq = [t \in Threads |-> FALSE]
    /\ calls = 0
    /\ arg = [t \in Threads \cup {Preloader} |-> "A"]
    /\ local_model = [t \in Threads \cup {Preloader} |-> None]
    /\ alive = {}
    /\ loads = 0
    /\ result = [t \in Threads |-> "none"]
    /\ poisoned = {}

InitCache ==
    /\ ColdCache
    /\ scenario = "cache"
    /\ search = NoSearch
    /\ embed = NoEmbedding
    /\ chunker = NoChunking
    /\ store = NoStore
    /\ cosine = NoCosine

NextCache ==
    \/ PreloadLoad
    \/ PreloadStoreModel
    \/ PreloadStorePath
    \/ PreloadSetLoaded
    \/ \E t \in Threads :
          \/ \E path \in Paths : CallGetOrLoad(t, path)
          \/ GetOrLoadCheck(t)
          \/ GetOrLoadLoad(t)
          \/ GetOrLoadStoreModel(t)
          \/ GetOrLoadStorePath(t)
          \/ \E path \in Paths : PreloadModel(t, path)
          \/ CancelPreload(t)
          \/ ClearModel(t)
          \/ ClearPath(t)
          \/ StartGenerate(t)
          \/ IngestBatch(t)
          \/ UpdateCacheTracking(t)
          \/ GenerateSample(t)
          \/ DecodeToken(t)
          \/ Finish(t)
          \/ Return(t)

SpecCache == InitCache /\ [][NextCache]_vars

\* The cache with invalidate_prompt_cache, every thread scheduled: a step that
\* stays possible is taken.
NextCacheLive == NextCache \/ InvalidatePromptCache

\* The cache cold, or holding the model of path A.
InitCacheLive ==
    /\ pc = [t \in Threads \cup {Preloader} |-> "idle"]
    /\ model_lock = NoThread
    /\ \/ current_model = None /\ current_path = None /\ alive = {} /\ loads = 0
       \/ /\ current_model = Some(CachedModel(1, "A"))
          /\ current_path = Some("A")
          /\ alive = {1}
          /\ loads = 1
    /\ preload_status = "NotStarted"
    /\ stop_generation = FALSE
    /\ call = NoCall
    /\ obs = NoObs
    /\ stopreq = [t \in Threads |-> FALSE]
    /\ calls = 0
    /\ scenario = "live"
    /\ arg = [t \in Threads \cup {Preloader} |-> "A"]
    /\ local_model = [t \in Threads \cup {Preloader} |-> None]
    /\ result = [t \in Threads |-> "none"]
    /\ poisoned = {}
    /\ search = NoSearch
    /\ embed = NoEmbedding
    /\ chunker = NoChunking
    /\ store = NoStore
    /\ cosine = NoCosine

SpecCacheLive == InitCacheLive /\ [][NextCacheLive]_vars /\ WF_vars(NextCacheLive)

(***************************************************************************)
(* Retrieval (vector_search.rs): hybrid_search over a corpus of chunks,    *)
(* one step per source (SpecSearch).                                       *)
(*                                                                         *)
(* A chunk is its row: the text, the cosine similarity of its embedding    *)
(* to the query in hundredths (None when the row has no usable embedding)  *)
(* and the bm25 value the index gives it when it matches. A score is a     *)
(* fraction <<numerator, denominator>>; f32 rounding is left out. Rows     *)
(* come in id order.                                                       *)
(***************************************************************************)

Frac(n, d) == <<n, d>>

FracAdd(a, b) == <<a[1] * b[2] + b[1] * a[2], a[2] * b[2]>>

FracMul(a, b) == <<a[1] * b[1], a[2] * b[2]>>

FracEq(a, b) == a[1] * b[2] = b[1] * a[2]

FracLess(a, b) == a[1] * b[2] < b[1] * a[2]

\* A cut that keeps the whole list.
Untruncated(results, n) == results

\* results.truncate(n)
truncate(results, n) == IF Len(results) > n THEN SubSeq(results, 1, n) ELSE results

\* An ordering that leaves the list as it is.
Unsorted(results) == results

\* results.sort_by(|a, b| b.similarity.partial_cmp(&a.similarity)...): the
\* stable sort by descending score.
SortBySimilarityDesc(results) ==
    LET n == Len(results)
        place(i) == 1 + Cardinality({j \in 1..n :
                           \/ FracLess(results[i].similarity, results[j].similarity)
                           \/ j < i /\ FracEq(results[i].similarity, results[j].similarity)})
    IN  [p \in 1..n |-> results[CHOOSE i \in 1..n : place(i) = p]]

\* The selected row ids, in id order.
RowsInOrder(ids) ==
    [p \in 1..Cardinality(ids) |->
        CHOOSE i \in ids : Cardinality({j \in ids : j < i}) = p - 1]

\* search_similar_chunks after the embedding of the query: the rows with an
\* embedding, scored, sorted and cut to top_k.
search_similar_chunks(corpus, top_k) ==
    LET rows == RowsInOrder({id \in 1..Len(corpus) : IsSome(corpus[id].embedding)})
        results == [r \in 1..Len(rows) |->
                       [chunk_id |-> rows[r],
                        similarity |-> Frac(Unwrap(corpus[rows[r]].embedding), 100)]]
    IN  truncate(SortBySimilarityDesc(results), top_k)

\* The index tokens of a text of words and white space: its words in lower
\* case, one space between them.
FtsTokens(text) == split_whitespace_join(to_lowercase(text))

\* chunks_fts MATCH '"..."': the tokens of the phrase stand next to each other
\* in the text; the empty phrase matches no row.
FtsMatch(fts_query, text) ==
    LET phrase == SubSeq(fts_query, 2, Len(fts_query) - 1)
        tokens == FtsTokens(text)
    IN  /\ Len(phrase) > 0
        /\ Len(phrase) <= Len(tokens)
        /\ contains(" " \o tokens \o " ", " " \o FtsTokens(phrase) \o " ")

\* query.trim().is_empty(): nothing but white space.
is_blank(query) == \A k \in 1..Len(query) : IsWhite(query, k)

\* ORDER BY rank: the stable sort by ascending bm25.
OrderByRank(corpus, rows) ==
    LET n == Len(rows)
        place(i) == 1 + Cardinality({j \in 1..n :
                           \/ corpus[rows[j]].bm25 < corpus[rows[i]].bm25
                           \/ j < i /\ corpus[rows[j]].bm25 = corpus[rows[i]].bm25})
    IN  [p \in 1..n |-> rows[CHOOSE i \in 1..n : place(i) = p]]

\* The SELECT of keyword_search: the matching rows by rank, LIMIT top_k, with
\* similarity = -rank / 100.
keyword_rows(corpus, fts_query, top_k) ==
    LET matching == {id \in 1..Len(corpus) : FtsMatch(fts_query, corpus[id].text)}
        rows == truncate(OrderByRank(corpus, RowsInOrder(matching)), top_k)
    IN  [r \in 1..Len(rows) |->
            [chunk_id |-> rows[r],
             similarity |-> Frac(0 - corpus[rows[r]].bm25, 100)]]

RRF_K == 60

\* The reciprocal of rrf_k plus the rank counted from 0.
rrf_score_from_zero(rank) == Frac(1, RRF_K + rank)

\* 1.0 / (rrf_k + (rank + 1)), for the rank enumerate() gives (from 0).
rrf_score(rank) == Frac(1, RRF_K + (rank + 1))

\* The weight of the dense list, 1.2.
DENSE_WEIGHT == Frac(6, 5)

\* The score the two loops accumulate under a chunk id.
RECURSIVE ListScore(_, _, _, _)
ListScore(results, chunk_id, weight, n) ==
    IF n = 0 THEN Frac(0, 1)
    ELSE LET before == ListScore(results, chunk_id, weight, n - 1)
         IN  IF results[n].chunk_id = chunk_id
             THEN FracAdd(before, FracMul(rrf_score(n - 1), weight))
             ELSE before

rrf_scores(semantic_results, keyword_results, chunk_id) ==
    FracAdd(ListScore(semantic_results, chunk_id, DENSE_WEIGHT, Len(semantic_results)),
            ListScore(keyword_results, chunk_id, Frac(1, 1), Len(keyword_results)))

\* The keys of chunk_map.
ChunkIds(semantic_results, keyword_results) ==
    {semantic_results[r].chunk_id : r \in 1..Len(semantic_results)}
        \cup {keyword_results[r].chunk_id : r \in 1..Len(keyword_results)}

\* The corpus, the queries and the top_k of the model.
MaxChunks == 2

\* The orders in which a HashMap can hand out its keys: every order for up to
\* MaxChunks keys, the ascending and the descending one for more keys.
IterationOrders(keys) ==
    IF Cardinality(keys) <= MaxChunks
    THEN {order \in [1..Cardinality(keys) -> keys] :
            \A a, b \in 1..Cardinality(keys) : order[a] = order[b] => a = b}
    ELSE LET ascending == RowsInOrder(keys)
             n == Len(ascending)
         IN  {ascending, [p \in 1..n |-> ascending[n + 1 - p]]}

MaxTopK == 2

ChunkTexts == {"Revenue plan", "income"}

Similarities == {50, 90}

Bm25Values == {-2, -1}

Chunks ==
    [text : ChunkTexts, embedding : {None} \cup {Some(v) : v \in Similarities},
     bm25 : Bm25Values]

RECURSIVE SeqsUpTo(_, _)
SeqsUpTo(S, n) ==
    IF n = 0 THEN {<<>>}
    ELSE LET shorter == SeqsUpTo(S, n - 1)
         IN  shorter \cup {Append(s, x) : s \in {t \in shorter : Len(t) = n - 1}, x \in S}

Corpora == SeqsUpTo(Chunks, MaxChunks)

\* A corpus of ten chunks that all match the query "plan": chunk id has rank
\* TieDense[id] in the dense list (0: it has no embedding) and rank
\* TieKeyword[id] in the keyword list. Chunks 3 and 6 get the same fused
\* score, 1.2/63 + 1/70 = 1.2/66 + 1/66, in f32 as in exact arithmetic, and
\* four chunks score higher.
TieDense == <<1, 2, 3, 4, 5, 6, 0, 0, 0, 0>>

TieKeyword == <<1, 2, 10, 3, 4, 6, 5, 7, 8, 9>>

TieCorpus ==
    [id \in 1..Len(TieDense) |->
        [text |-> "Revenue plan",
         embedding |-> IF TieDense[id] = 0 THEN None
                       ELSE Some(100 - 10 * TieDense[id]),
         bm25 |-> TieKeyword[id] - (Len(TieKeyword) + 1)]]

\* The search whose cut falls between the chunks of equal score.
TieSearch == [NoSearch EXCEPT !.pc = "dense", !.query = "plan", !.top_k = 5,
                              !.corpus = TieCorpus]

\* A query of more than MAX_FTS_QUERY_CHARS characters.
LongQuery == Repeat("plan ", 99) \o "(revenue)"

Queries == {"revenue", "plan", "(PLAN)!", "income OR plan", "***", "", LongQuery}

\* expand_query and sanitize_fts_query of the model's queries, computed once.
ExpandedQueryOf == [query \in Queries |-> expand_query(query)]

FtsQueryOf == [query \in Queries |-> sanitize_fts_query(ExpandedQueryOf[query])]

\* Every list non-empty goes to the fusion.
AlwaysFuse(semantic_results, keyword_results) ==
    IF Len(semantic_results) = 0 /\ Len(keyword_results) = 0 THEN "empty" ELSE "fused"

\* The branch hybrid_search takes on the two lists.
FusionBranch(semantic_results, keyword_results) ==
    IF Len(semantic_results) = 0 /\ Len(keyword_results) = 0 THEN "empty"
    ELSE IF Len(semantic_results) = 0 THEN "keyword"
    ELSE IF Len(keyword_results) = 0 THEN "semantic"
    ELSE "fused"

\* hybrid_search: the dense source. Making the query embedding or opening the
\* database can fail, and the error is returned.
SearchSimilarChunks ==
    /\ search.pc = "dense"
    /\ \E ok \in BOOLEAN :
          search' = IF ok
                    THEN [search EXCEPT
                            !.semantic_results =
                                search_similar_chunks(search.corpus, search.top_k * 2),
                            !.pc = "keyword"]
                    ELSE [search EXCEPT !.failed = "dense", !.outcome = "Err", !.pc = "done"]
    /\ UNCHANGED notSearch

\* hybrid_search: expand_query, then keyword_search on the expanded query. A
\* blank query returns no rows before the database is opened; opening it or
\* running the statement can fail, and the error is returned.
KeywordSearch ==
    /\ search.pc = "keyword"
    /\ \E expanded \in {ExpandedQueryOf[search.query]} :
          IF is_blank(expanded)
          THEN search' = [search EXCEPT !.expanded_query = expanded,
                                        !.keyword_results = <<>>, !.pc = "fuse"]
          ELSE \E fts_query \in {FtsQueryOf[search.query]}, ok \in BOOLEAN :
                  search' = IF ok
                            THEN [search EXCEPT
                                    !.expanded_query = expanded,
                                    !.fts_query = fts_query,
                                    !.keyword_results =
                                        keyword_rows(search.corpus, fts_query,
                                                     search.top_k * 2),
                                    !.pc = "fuse"]
                            ELSE [search EXCEPT
                                    !.expanded_query = expanded,
                                    !.fts_query = fts_query,
                                    !.failed = "keyword", !.outcome = "Err", !.pc = "done"]
    /\ UNCHANGED notSearch

\* The candidates as chunk_map.into_iter() hands them out in order, each with
\* its fused score.
CombinedResults(semantic_results, keyword_results, order) ==
    [p \in 1..Len(order) |->
        [chunk_id |-> order[p],
         similarity |-> rrf_scores(semantic_results, keyword_results, order[p])]]

\* hybrid_search from the emptiness tests on: one list alone is cut to top_k,
\* two lists are fused, the candidates leave the HashMap in any order, are
\* sorted by score and cut to top_k.
Fuse ==
    /\ search.pc = "fuse"
    /\ LET semantic_results == search.semantic_results
           keyword_results == search.keyword_results
           branch == FusionBranch(semantic_results, keyword_results)
           done == [search EXCEPT !.branch = branch, !.outcome = "Ok", !.pc = "done"]
       IN  CASE branch = "empty" -> search' = done
             [] branch = "keyword" ->
                  search' = [done EXCEPT !.results = truncate(keyword_results, search.top_k)]
             [] branch = "semantic" ->
                  search' = [done EXCEPT !.results = truncate(semantic_results, search.top_k)]
             [] branch = "fused" ->
                  \E order \in IterationOrders(ChunkIds(semantic_results, keyword_results)) :
                     LET combined_results ==
                             CombinedResults(semantic_results, keyword_results, order)
                     IN  search' = [done EXCEPT
                                      !.candidates = combined_results,
                                      !.results = truncate(SortBySimilarityDesc(combined_results),
                                                           search.top_k)]
    /\ UNCHANGED notSearch

InitSearch ==
    /\ ColdCache
    /\ scenario = "search"
    /\ embed = NoEmbedding
    /\ chunker = NoChunking
    /\ store = NoStore
    /\ cosine = NoCosine
    /\ \/ \E query \in Queries, top_k \in 0..MaxTopK, corpus \in Corpora :
             search = [NoSearch EXCEPT !.pc = "dense", !.query = query,
                                      !.top_k = top_k, !.corpus = corpus]
       \/ search = TieSearch

NextSearch == SearchSimilarChunks \/ KeywordSearch \/ Fuse

SpecSearch == InitSearch /\ [][NextSearch]_vars


(***************************************************************************)
(* Properties of the model cache (SpecCache).                              *)
(***************************************************************************)

\* C1: at most one loaded model instance is alive at any time; the old
\* instance is dropped before the new one is loaded.
C1_AtMostOneInstanceAlive == Cardinality(alive) <= 1

\* The model loaded from path p is the one the cache holds and records.
IsLoaded(p) ==
    /\ IsSome(current_model)
    /\ Unwrap(current_model).path = p
    /\ current_path = Some(p)

\* C2: get_or_load(p) while the model of p is loaded answers "cached" without
\* loading, and leaves the instance, its prompt cache and the path as they are.
C2_SamePathIsNoOp ==
    [][\A t \in Threads :
          (pc[t] = "gol_check" /\ pc'[t] # "gol_check" /\ IsLoaded(arg[t]))
          => /\ pc'[t] = "idle"
             /\ result'[t] = "cached"
             /\ UNCHANGED <<current_model, current_path, local_model, alive, loads>>]_vars

\* A call of get_or_load has answered "cached" for a model that has a prompt
\* cache entry.
C2_Witness ==
    \E t \in Threads :
        /\ pc[t] = "idle"
        /\ result[t] = "cached"
        /\ IsLoaded(arg[t])
        /\ IsSome(PromptCache)

(***************************************************************************)
(* Properties of generate and generate_streaming (Spec).                   *)
(***************************************************************************)

\* C3: while the stop flag stays set during generate_streaming, at most one
\* more token is sampled and at most one more piece is appended, and a token
\* sampled after the flag was set is not appended.
C3_StopsWithinOneToken ==
    stop_generation =>
        /\ obs.after_stop_sampled <= 1
        /\ obs.after_stop_appended <= 1
        /\ obs.after_stop_sampled + obs.after_stop_appended <= 1

\* A token was sampled after the flag was set and the poll after sampling
\* ended the loop.
C3_Witness ==
    /\ stop_generation
    /\ obs.after_stop_sampled = 1
    /\ obs.reason = "cancel_post_sample"

IsPrefix(p, s) == Len(p) <= Len(s) /\ SubSeq(s, 1, Len(p)) = p

\* The text generate_streaming returns when no stop is requested and nothing
\* fails: the loop run from the locals c.
RECURSIVE UncancelledRun(_)
UncancelledRun(c) ==
    IF ~LoopContinues(c.i, c.max_tokens) THEN c.response
    ELSE LET d == process_token(c, sample(c.prompt, c.i))
         IN  IF d.outcome # "continue" THEN d.response
             ELSE UncancelledRun([d EXCEPT !.i = c.i + 1])

Uncancelled(prompt, max_tokens) ==
    UncancelledRun([NoCall EXCEPT !.prompt = prompt, !.max_tokens = max_tokens])

\* C4: a stop requested before the first emission of a streaming generation
\* ends it after at most one sampled token, and the text returned is a prefix
\* of the text of the uncancelled run.
C4_StopBeforeFirstEmission ==
    \A t \in Threads :
        (stopreq[t] /\ obs.caller = t /\ call.kind = "streaming")
        => /\ obs.sampled_after_request <= 1
           /\ obs.status = "Ok"
              => IsPrefix(obs.text, Uncancelled(call.prompt, call.max_tokens))

\* C5: on every successful return of generate_streaming the batches delivered
\* to on_token_batch, concatenated, are the returned text.
C5_AllOutputFlushed ==
    (call.kind = "streaming" /\ obs.status = "Ok") => obs.emitted = obs.text

\* C6: a call with max_tokens = N samples at most N tokens and appends at
\* most N pieces.
C6_AtMostMaxTokens ==
    /\ obs.sampled <= call.max_tokens
    /\ obs.appended <= call.max_tokens
    /\ call.tokens_generated <= call.max_tokens

\* A call has sampled all of its max_tokens tokens.
C6_Witness ==
    /\ obs.status = "Ok"
    /\ obs.reason = "max_tokens"
    /\ call.max_tokens >= 2
    /\ obs.sampled = call.max_tokens
    /\ obs.appended = call.max_tokens

\* The prompt whose hash the entry holds.
StoredPrompt(entry) == CHOOSE p \in Prompts : hash_prompt(p) = entry.hash

C8_PromptTooLargeGuard ==
    obs.status # "none" =>
        /\ (obs.error = "PromptTooLarge") <=> (call.n_tokens > SAFE_PROMPT_TOKENS)
        /\ obs.error = "PromptTooLarge"
           => /\ obs.status = "Err"
              /\ call.ctx = 0
              /\ obs.sampled = 0
              /\ obs.batches = 0
              /\ obs.emitted = ""

\* A prompt one token above the ceiling was refused.
C8_Witness ==
    /\ obs.status = "Err"
    /\ obs.error = "PromptTooLarge"
    /\ call.n_tokens = SAFE_PROMPT_TOKENS + 1

\* The handle and the path of the cache are the ones the call found.
SameHandleAndPath ==
    /\ IsSome(current_model) = IsSome(obs.pre_model)
    /\ IsSome(current_model)
       => /\ Unwrap(current_model).id = Unwrap(obs.pre_model).id
          /\ Unwrap(current_model).path = Unwrap(obs.pre_model).path
    /\ current_path = obs.pre_path

\* C9 as stated: after a failed call the handle, the path and the prompt
\* cache entry are as they were before the call.
C9_FailureLeavesEntry ==
    obs.status = "Err" => (current_model = obs.pre_model /\ current_path = obs.pre_path)

\* C9 amended: a failed call is over (it is not retried) and leaves the handle
\* and the path as they were; the entry is as before when the call failed
\* before the generation loop and is the updated entry of this prompt when it
\* failed in the loop; every call ingests its prompt into an empty context.
C9_FailureKeepsHandle ==
    /\ obs.status = "Err" =>
          /\ pc[obs.caller] = "ret"
          /\ SameHandleAndPath
          /\ IF call.n_cur = 0
             THEN current_model = obs.pre_model
             ELSE PromptCache =
                     UpdatedCacheEntry(Unwrap(obs.pre_model).prompt_cache,
                                       call.cache_hit, hash_prompt(call.prompt),
                                       call.n_tokens)
    /\ \A t \in Threads :
          (pc[t] = "ingest" /\ call.chunk_start = 0) => call.ctx = 0

\* A decode failure in the generation loop, after the entry was replaced.
C9_Witness ==
    /\ obs.status = "Err"
    /\ obs.error = "DecodeFailed"
    /\ call.n_cur > 0
    /\ current_model # obs.pre_model

\* C10: a break on a degeneracy heuristic is no error of the call: unless the
\* callback itself fails on the flush, the call returns Ok with the text
\* produced so far, all of it delivered.
C10_DegeneracyIsSuccess ==
    obs.reason \in DegeneracyReasons =>
        \/ obs.error = "CallbackFailed"
        \/ /\ obs.status \in {"running", "Ok"}
           /\ obs.emitted = call.response
           /\ obs.status = "Ok" => obs.text = call.response

\* A call returned Ok after the similarity heuristic stopped it.
C10_Witness ==
    /\ obs.status = "Ok"
    /\ obs.reason = "similarity"
    /\ obs.text # ""
    /\ obs.emitted = obs.text

\* C11: a generate or generate_streaming call on a cache without a model
\* returns NoModelLoaded, samples nothing, delivers nothing and leaves the
\* handle and the path empty.
C11_NoModelLoaded ==
    [][/\ (model_lock = NoThread /\ model_lock' # NoThread /\ ~IsSome(current_model))
          => (obs'.status = "Err" /\ obs'.error = "NoModelLoaded")
       /\ obs'.error = "NoModelLoaded"
          => /\ ~IsSome(obs'.pre_model)
             /\ obs'.sampled = 0
             /\ obs'.batches = 0
             /\ obs'.emitted = ""
             /\ current_model' = None
             /\ current_path' = None
             /\ UNCHANGED <<current_model, current_path>>]_vars

\* A streaming call on the empty cache has failed with NoModelLoaded.
C11_Witness ==
    /\ obs.status = "Err"
    /\ obs.error = "NoModelLoaded"
    /\ call.kind = "streaming"
    /\ ~IsSome(current_model)

\* C12: a panic under the model lock poisons it, and every later call still
\* acquires the lock, sees the handle as the panicking call left it and runs
\* normally: no call fails on the poison, and the lock is never left held
\* when every thread is back.
C12_PoisonIsRecovered ==
    [][/\ obs'.error # "PoisonError"
       /\ ("current_model" \in poisoned /\ model_lock = NoThread /\ model_lock' # NoThread)
             => /\ obs'.status # "Panic"
                /\ obs'.pre_model = current_model
                /\ UNCHANGED <<current_model, current_path>>
       /\ (obs.status = "Panic" /\ model_lock # NoThread /\ model_lock' = NoThread)
             => /\ "current_model" \in poisoned'
                /\ UNCHANGED <<current_model, current_path>>
       /\ (\A t \in Threads : pc'[t] = "idle") => model_lock' = NoThread]_vars

C12_Witness ==
    /\ "current_model" \in poisoned
    /\ obs.status = "Ok" /\ obs.sampled > 0
    /\ pc[obs.caller] = "ret"

(***************************************************************************)
(* Properties of hybrid_search (SpecSearch).                               *)
(***************************************************************************)

Returned == search.pc = "done" /\ search.outcome = "Ok"

\* C13: hybrid_search never returns more than top_k results, whatever the
\* branch and the corpus.
C13_AtMostTopK == Returned => Len(search.results) <= search.top_k

\* A fusion with more candidates than top_k has returned.
C13_Witness ==
    /\ Returned
    /\ search.branch = "fused"
    /\ Len(search.candidates) > search.top_k
    /\ Len(search.results) = search.top_k

RankIn(results, chunk_id) ==
    IF \E r \in 1..Len(results) : results[r].chunk_id = chunk_id
    THEN CHOOSE r \in 1..Len(results) : results[r].chunk_id = chunk_id
    ELSE 0

\* 1.2 / (60 + r_d) for a dense rank and 1 / (60 + r_k) for a lexical rank.
DenseTerm(r) == IF r = 0 THEN Frac(0, 1) ELSE Frac(6, 5 * (60 + r))

LexicalTerm(r) == IF r = 0 THEN Frac(0, 1) ELSE Frac(1, 60 + r)

\* C15: in the fused branch every candidate carries 1.2/(60+r_d) for its dense
\* rank plus 1/(60+r_k) for its lexical rank, the candidates are the chunks of
\* the two lists, and no chunk id stands twice among them.
C15_FusedScores ==
    (search.pc = "done" /\ search.branch = "fused") =>
        /\ \A p \in 1..Len(search.candidates) :
              LET c == search.candidates[p]
              IN  /\ FracEq(c.similarity,
                            FracAdd(DenseTerm(RankIn(search.semantic_results, c.chunk_id)),
                                    LexicalTerm(RankIn(search.keyword_results, c.chunk_id))))
                  /\ RankIn(search.semantic_results, c.chunk_id)
                        + RankIn(search.keyword_results, c.chunk_id) > 0
        /\ \A p, q \in 1..Len(search.candidates) :
              search.candidates[p].chunk_id = search.candidates[q].chunk_id => p = q
        /\ \A p \in 1..Len(search.results) :
              \E q \in 1..Len(search.candidates) : search.results[p] = search.candidates[q]

\* A fusion with a chunk in both lists and a chunk in one list only.
C15_Witness ==
    /\ search.pc = "done"
    /\ search.branch = "fused"
    /\ \E p, q \in 1..Len(search.candidates) :
          /\ RankIn(search.semantic_results, search.candidates[p].chunk_id) > 0
          /\ RankIn(search.keyword_results, search.candidates[p].chunk_id) > 0
          /\ RankIn(search.keyword_results, search.candidates[q].chunk_id) = 0

\* The first n entries of a list, as they are.
IsFirstOf(results, list, n) ==
    /\ Len(results) = (IF Len(list) < n THEN Len(list) ELSE n)
    /\ \A i \in 1..Len(results) : results[i] = list[i]

\* C16: when both lists are empty the search returns the empty list and no
\* error; when one list is empty it returns the first top_k entries of the
\* other one, in their order and with their scores.
C16_DegenerateCases ==
    (search.pc = "done" /\ search.failed = "none") =>
        /\ search.outcome = "Ok"
        /\ (Len(search.semantic_results) = 0 /\ Len(search.keyword_results) = 0)
              => search.results = <<>>
        /\ (Len(search.semantic_results) = 0 /\ Len(search.keyword_results) > 0)
              => IsFirstOf(search.results, search.keyword_results, search.top_k)
        /\ (Len(search.semantic_results) > 0 /\ Len(search.keyword_results) = 0)
              => IsFirstOf(search.results, search.semantic_results, search.top_k)

\* The dense list alone, longer than top_k, has been cut and returned.
C16_Witness ==
    /\ Returned
    /\ Len(search.keyword_results) = 0
    /\ Len(search.semantic_results) > search.top_k
    /\ search.top_k > 0
    /\ Len(search.results) = search.top_k

\* C17: when the keyword source fails after the dense source has succeeded,
\* hybrid_search returns the dense results.
C17_DegradesToOtherSource ==
    (search.pc = "done" /\ search.failed = "keyword") =>
        /\ search.outcome = "Ok"
        /\ IsFirstOf(search.results, search.semantic_results, search.top_k)

\* sanitize_fts_query of the queries as they are typed, computed once.
FtsQueryOfOriginal == [query \in Queries |-> sanitize_fts_query(query)]

\* C18: every chunk the index matches for the original query is matched for
\* the expanded query as it is sent.
C18_ExpansionKeepsRecall ==
    (search.pc \in {"fuse", "done"} /\ Len(search.fts_query) > 0) =>
        \A id \in 1..Len(search.corpus) :
            FtsMatch(FtsQueryOfOriginal[search.query], search.corpus[id].text)
                => FtsMatch(search.fts_query, search.corpus[id].text)

\* C19: the MATCH argument is one double-quoted phrase of alphanumeric
\* characters and single spaces, at most 500 characters long, and the empty
\* phrase brings no row.
C19_SanitizedIsOnePhrase ==
    Len(search.fts_query) > 0 =>
        LET n == Len(search.fts_query)
            phrase == SubSeq(search.fts_query, 2, n - 1)
        IN  /\ n >= 2
            /\ CharAt(search.fts_query, 1) = "\""
            /\ CharAt(search.fts_query, n) = "\""
            /\ Len(phrase) <= MAX_FTS_QUERY_CHARS
            /\ \A k \in 1..Len(phrase) :
                  \/ IsAlphanumeric(CharAt(phrase, k))
                  \/ /\ CharAt(phrase, k) = " "
                     /\ 1 < k /\ k < Len(phrase)
                     /\ CharAt(phrase, k + 1) # " "
            /\ (Len(phrase) = 0 /\ search.pc \in {"fuse", "done"} /\ search.failed = "none")
                  => search.keyword_results = <<>>

\* The long query has been cut to 500 characters and sent.
C19_Witness ==
    /\ search.query = LongQuery
    /\ Len(search.fts_query) = MAX_FTS_QUERY_CHARS + 2
    /\ search.pc = "fuse"

(***************************************************************************)
(* Embeddings (embeddings.rs): generate_embeddings_parallel, the batches   *)
(* finishing in any order (SpecEmbed).                                     *)
(***************************************************************************)

\* The most texts of one call.
MaxTexts == 130

\* The texts of a call: n of them, told apart by a number.
TextSeeds == {1, 3}

TextsOf(n, seed) == [i \in 1..n |-> (seed * i) % 7]

\* The vector the embedding model gives a text.
EmbeddingOf(text) == <<text>>

\* self.model.embed(batch): one vector per text of the batch, in its order.
embed_batch(batch) == [i \in 1..Len(batch) |-> EmbeddingOf(batch[i])]

\* The batch size chosen from the number of texts.
batch_size_for(total_chunks) ==
    IF total_chunks > 1000 THEN 128
    ELSE IF total_chunks > 100 THEN 64
    ELSE 32

\* texts.chunks(batch_size): the number of batches and the b-th of them.
num_batches_of(texts, batch_size) == (Len(texts) + batch_size - 1) \div batch_size

BatchOf(texts, batch_size, b) ==
    SubSeq(texts, (b - 1) * batch_size + 1,
           IF b * batch_size < Len(texts) THEN b * batch_size ELSE Len(texts))

\* The vectors of the batches put together in the order the batches finished.
RECURSIVE CollectAsCompleted(_, _, _)
CollectAsCompleted(slots, completed, n) ==
    IF n = 0 THEN <<>>
    ELSE CollectAsCompleted(slots, completed, n - 1) \o Unwrap(slots[completed[n]])

\* par_iter().map().collect() and into_iter().flatten().collect(): the vectors
\* of the first n batches, by batch index.
RECURSIVE CollectByIndex(_, _, _)
CollectByIndex(slots, completed, n) ==
    IF n = 0 THEN <<>>
    ELSE CollectByIndex(slots, completed, n - 1) \o Unwrap(slots[n])

\* The batch size is chosen and the texts are split.
SplitBatches ==
    /\ embed.pc = "split"
    /\ LET batch_size == batch_size_for(Len(embed.texts))
           num_batches == num_batches_of(embed.texts, batch_size)
       IN  embed' = [embed EXCEPT !.batch_size = batch_size,
                                  !.num_batches = num_batches,
                                  !.slots = [b \in 1..num_batches |-> None],
                                  !.pending = [b \in 1..num_batches |-> None],
                                  !.pc = "map"]
    /\ UNCHANGED notEmbed

\* One rayon task, up to processed.fetch_add: a batch that has not run yet
\* is embedded and adds its length to the counter, or fails.
EmbedBatch(b) ==
    /\ embed.pc = "map"
    /\ b \in 1..embed.num_batches
    /\ ~IsSome(embed.slots[b])
    /\ ~IsSome(embed.pending[b])
    /\ b \notin embed.failed
    /\ \E ok \in BOOLEAN :
          LET batch == BatchOf(embed.texts, embed.batch_size, b)
          IN  embed' = IF ok
                       THEN [embed EXCEPT
                                !.pending[b] = Some(embed.processed + Len(batch)),
                                !.processed = embed.processed + Len(batch)]
                       ELSE [embed EXCEPT !.failed = embed.failed \cup {b}]
    /\ UNCHANGED notEmbed

\* The rest of the task: progress_callback(chunks_processed, total_chunks),
\* then Ok(embeddings).
ReportProgress(b) ==
    /\ embed.pc = "map"
    /\ b \in 1..embed.num_batches
    /\ IsSome(embed.pending[b])
    /\ embed' = [embed EXCEPT
                     !.progress = Append(embed.progress,
                                         <<Unwrap(embed.pending[b]), Len(embed.texts)>>),
                     !.pending[b] = None,
                     !.slots[b] = Some(embed_batch(BatchOf(embed.texts,
                                                           embed.batch_size, b))),
                     !.completed = Append(embed.completed, b)]
    /\ UNCHANGED notEmbed

\* A collect that drops the errors of the batches.
CollectedIgnoringErrors(failed) == "Ok"

\* collect::<Result<Vec<_>>>() and results?: Err when a batch returned Err.
Collected(failed) == IF failed # {} THEN "Err" ELSE "Ok"

\* collect() and the return: an error of a batch (of one of them, when several
\* failed) is the error of the call, whatever the other batches did; otherwise
\* every batch has run and the vectors are flattened.
CollectResults ==
    /\ embed.pc = "map"
    /\ \/ \E b \in embed.failed :
             embed' = [embed EXCEPT !.outcome = Collected(embed.failed),
                                    !.error = b, !.pc = "done"]
       \/ /\ embed.failed = {}
          /\ \A b \in 1..embed.num_batches : IsSome(embed.slots[b])
          /\ embed' = [embed EXCEPT
                          !.all_embeddings =
                              CollectByIndex(embed.slots, embed.completed, embed.num_batches),
                          !.outcome = Collected(embed.failed), !.pc = "done"]
    /\ UNCHANGED notEmbed

InitEmbed ==
    /\ ColdCache
    /\ scenario = "embed"
    /\ search = NoSearch
    /\ chunker = NoChunking
    /\ store = NoStore
    /\ cosine = NoCosine
    /\ \E n \in 0..MaxTexts, seed \in TextSeeds :
          embed = [NoEmbedding EXCEPT !.pc = "split", !.texts = TextsOf(n, seed)]

NextEmbed ==
    \/ SplitBatches
    \/ \E b \in 1..embed.num_batches : EmbedBatch(b)
    \/ \E b \in 1..embed.num_batches : ReportProgress(b)
    \/ CollectResults

SpecEmbed == InitEmbed /\ [][NextEmbed]_vars

(***************************************************************************)
(* Properties of generate_embeddings_parallel (SpecEmbed).                 *)
(***************************************************************************)

\* C20: a call that returns gives one vector per text, the i-th being the
\* embedding of the i-th text, in whatever order the batches finished.
C20_OutputInInputOrder ==
    (embed.pc = "done" /\ embed.outcome = "Ok") =>
        /\ Len(embed.all_embeddings) = Len(embed.texts)
        /\ \A i \in 1..Len(embed.texts) :
              embed.all_embeddings[i] = EmbeddingOf(embed.texts[i])

\* A call has returned whose later batch finished before an earlier one.
C20_Witness ==
    /\ embed.pc = "done"
    /\ embed.outcome = "Ok"
    /\ embed.num_batches >= 2
    /\ embed.completed[1] > embed.completed[2]

\* C21: when a batch has failed the call returns the error of a failed batch
\* and no vector, whatever the other batches did; vectors are returned only
\* when no batch failed.
C21_FailureReturnsNoVectors ==
    embed.pc = "done" =>
        /\ embed.failed # {} =>
              /\ embed.outcome = "Err"
              /\ embed.error \in embed.failed
              /\ embed.all_embeddings = <<>>
        /\ embed.outcome = "Ok" => embed.failed = {}

\* A call has failed on its second batch after its first batch was embedded.
C21_Witness ==
    /\ embed.pc = "done"
    /\ embed.outcome = "Err"
    /\ embed.error = 2
    /\ embed.completed = <<1>>
    /\ embed.processed > 0

\* C31: the progress callback is invoked once per batch with counts that
\* never decrease, and the last invocation of a successful call reports the
\* total.
C31_ProgressIsMonotone ==
    /\ \A i \in 1..Len(embed.progress) :
          \A j \in i..Len(embed.progress) :
              embed.progress[i][1] <= embed.progress[j][1]
    /\ (embed.pc = "done" /\ embed.outcome = "Ok") =>
          /\ Len(embed.progress) = embed.num_batches
          /\ embed.num_batches > 0 =>
                embed.progress[Len(embed.progress)][1] = Len(embed.texts)

(***************************************************************************)
(* Chunking (documents.rs): chunk_text, one step per paragraph             *)
(* (SpecChunk).                                                            *)
(***************************************************************************)

\* str::split(sep): the pieces between the matches of sep, left to right.
RECURSIVE SplitFrom(_, _, _)
SplitFrom(s, sep, i) ==
    LET ks == {k \in i..(Len(s) - Len(sep) + 1) : SubSeq(s, k, k + Len(sep) - 1) = sep}
    IN  IF ks = {} THEN <<SubSeq(s, i, Len(s))>>
        ELSE LET k0 == CHOOSE k \in ks : \A j \in ks : k <= j
             IN  <<SubSeq(s, i, k0 - 1)>> \o SplitFrom(s, sep, k0 + Len(sep))

split(s, sep) == SplitFrom(s, sep, 1)

\* unicode_words, on texts of letters, digits, '#', '.' and white space where
\* no '.' stands between two letters: the runs of letters and digits.
unicode_words(s) ==
    LET IsWordChar(k) == IsAlphanumeric(CharAt(s, k))
        starts == {k \in 1..Len(s) : IsWordChar(k) /\ (k = 1 \/ ~IsWordChar(k - 1))}
        EndOf(a) == LET stops == {k \in a..Len(s) : ~IsWordChar(k)}
                    IN  IF stops = {} THEN Len(s)
                        ELSE (CHOOSE k \in stops : \A j \in stops : k <= j) - 1
    IN  [n \in 1..Cardinality(starts) |->
            LET a == CHOOSE k \in starts : Cardinality({j \in starts : j < k}) = n - 1
            IN  SubSeq(s, a, EndOf(a))]

\* str::lines().count()
lines_count(s) ==
    IF Len(s) = 0 THEN 0
    ELSE 1 + Cardinality({k \in 1..Len(s) : CharAt(s, k) = "\n"})
           - (IF CharAt(s, Len(s)) = "\n" THEN 1 ELSE 0)

starts_with(s, p) == Len(s) >= Len(p) /\ SubSeq(s, 1, Len(p)) = p

ends_with(s, p) == Len(s) >= Len(p) /\ SubSeq(s, Len(s) - Len(p) + 1, Len(s)) = p

is_heading(trimmed) ==
    \/ starts_with(trimmed, "#")
    \/ ByteLen(trimmed) < 100 /\ lines_count(trimmed) = 1 /\ ~ends_with(trimmed, ".")

MAX_CHUNK_SIZE == 10000

\* A parameter test without the upper bound.
ParametersRejectedUnbounded(chunk_size, overlap) ==
    chunk_size = 0 \/ overlap >= chunk_size

\* The three bail! tests of chunk_text.
ParametersRejected(chunk_size, overlap) ==
    chunk_size = 0 \/ overlap >= chunk_size \/ chunk_size > MAX_CHUNK_SIZE

\* The fallback loop: windows of chunk_size words, chunk_size - overlap apart.
RECURSIVE WordWindows(_, _, _, _)
WordWindows(words, chunk_size, overlap, start) ==
    IF start >= Len(words) THEN <<>>
    ELSE LET end == IF start + chunk_size < Len(words) THEN start + chunk_size
                    ELSE Len(words)
             chunk == join(SubSeq(words, start + 1, end), " ")
         IN  IF end >= Len(words) THEN <<chunk>>
             ELSE <<chunk>> \o WordWindows(words, chunk_size, overlap,
                                           start + (chunk_size - overlap))

\* The texts and the parameters of the model.
MaxPieces == 4

MaxWords == 2

TextPieces == {"a ", "b. ", "\n\n", "#"}

InputTexts == {join(pieces, "") : pieces \in SeqsUpTo(TextPieces, MaxPieces)}

ChunkSizes == 0..MaxWords \cup {MAX_CHUNK_SIZE, MAX_CHUNK_SIZE + 1}

Overlaps == 0..MaxWords

\* chunk_text up to the paragraph loop: the parameters are tested, a blank
\* text gives no chunk, the text is split at the blank lines.
ValidateParameters ==
    /\ chunker.pc = "validate"
    /\ chunker' =
          IF ParametersRejected(chunker.chunk_size, chunker.overlap)
          THEN [chunker EXCEPT !.outcome = "Err", !.pc = "done"]
          ELSE IF is_blank(chunker.text)
               THEN [chunker EXCEPT !.outcome = "Ok", !.pc = "done"]
          ELSE [chunker EXCEPT !.paragraphs = split(chunker.text, "\n\n"),
                               !.pc = "paragraphs"]
    /\ UNCHANGED notChunker

\* One turn of the paragraph loop.
NextParagraph ==
    /\ chunker.pc = "paragraphs"
    /\ chunker.next <= Len(chunker.paragraphs)
    /\ \E trimmed \in {trim(chunker.paragraphs[chunker.next])} :
          IF Len(trimmed) = 0
          THEN chunker' = [chunker EXCEPT !.next = chunker.next + 1]
          ELSE \E last_heading \in {IF is_heading(trimmed) THEN trimmed
                                    ELSE chunker.last_heading} :
               LET para_word_count == Len(unicode_words(trimmed))
                   current_chunk == chunker.current_chunk
                   current_word_count == chunker.current_word_count
                   flush == /\ current_word_count + para_word_count > chunker.chunk_size
                            /\ current_word_count > 0
                   words == unicode_words(current_chunk)
                   start_idx == IF Len(words) > chunker.overlap
                                THEN Len(words) - chunker.overlap ELSE 0
               IN  \E overlap_words \in
                       {IF current_word_count > chunker.overlap
                        THEN join(SubSeq(words, start_idx + 1, Len(words)), " ")
                        ELSE current_chunk} :
                   \E restarted \in
                       {IF ~flush THEN current_chunk
                        ELSE (IF Len(last_heading) # 0 /\ ~contains(overlap_words, last_heading)
                              THEN last_heading \o "\n\n" ELSE "")
                                 \o overlap_words \o "\n\n"} :
                      chunker' =
                         [chunker EXCEPT
                             !.chunks = IF flush THEN Append(chunker.chunks, current_chunk)
                                        ELSE chunker.chunks,
                             !.last_heading = last_heading,
                             !.current_chunk =
                                 (IF Len(restarted) # 0 /\ ~ends_with(restarted, "\n\n")
                                  THEN restarted \o "\n\n" ELSE restarted) \o trimmed,
                             !.current_word_count =
                                 (IF flush THEN Len(unicode_words(restarted))
                                  ELSE current_word_count) + para_word_count,
                             !.next = chunker.next + 1]
    /\ UNCHANGED notChunker

\* The chunk in progress is left behind.
DropLast(chunks, current_chunk) == chunks

\* if !current_chunk.trim().is_empty() { chunks.push(current_chunk); }
PushLast(chunks, current_chunk) ==
    IF ~is_blank(current_chunk) THEN Append(chunks, current_chunk) ELSE chunks

\* After the loop: the chunk in progress is pushed, and a call that has no
\* chunk yet slices the words of the text into windows.
FinishChunks ==
    /\ chunker.pc = "paragraphs"
    /\ chunker.next > Len(chunker.paragraphs)
    /\ LET chunks == PushLast(chunker.chunks, chunker.current_chunk)
           fallback == Len(chunks) = 0
       IN  chunker' = [chunker EXCEPT
                          !.chunks = IF fallback
                                     THEN WordWindows(unicode_words(chunker.text),
                                                      chunker.chunk_size, chunker.overlap, 0)
                                     ELSE chunks,
                          !.fallback = fallback,
                          !.outcome = "Ok", !.pc = "done"]
    /\ UNCHANGED notChunker

InitChunk ==
    /\ ColdCache
    /\ scenario = "chunk"
    /\ search = NoSearch
    /\ embed = NoEmbedding
    /\ store = NoStore
    /\ cosine = NoCosine
    /\ \E text \in InputTexts, chunk_size \in ChunkSizes, overlap \in Overlaps :
          chunker = [pc |-> "validate", text |-> text, chunk_size |-> chunk_size,
                     overlap |-> overlap, paragraphs |-> <<>>, next |-> 1,
                     chunks |-> <<>>, current_chunk |-> "", current_word_count |-> 0,
                     last_heading |-> "", fallback |-> FALSE, outcome |-> "none"]

NextChunk == ValidateParameters \/ NextParagraph \/ FinishChunks

SpecChunk == InitChunk /\ [][NextChunk]_vars

(***************************************************************************)
(* Properties of chunk_text (SpecChunk).                                   *)
(***************************************************************************)

Chunked == chunker.pc = "done" /\ chunker.outcome = "Ok"

\* C22: every chunk chunk_text outputs holds at most chunk_size words.
C22_ChunksWithinSize ==
    Chunked =>
        \A c \in 1..Len(chunker.chunks) :
            Len(unicode_words(chunker.chunks[c])) <= chunker.chunk_size

\* C23: a text of one paragraph with more than chunk_size words is cut into
\* windows of at most chunk_size words that start chunk_size - overlap words
\* apart.
C23_GiantParagraphIsSliced ==
    (/\ Chunked
     /\ ~contains(chunker.text, "\n\n")
     /\ Len(unicode_words(chunker.text)) > chunker.chunk_size) =>
        chunker.chunks = WordWindows(unicode_words(chunker.text),
                                     chunker.chunk_size, chunker.overlap, 0)

\* C24: chunk_text fails, with no chunk, exactly when chunk_size is 0,
\* overlap >= chunk_size or chunk_size > 10000, whatever the text.
C24_InvalidParameters ==
    chunker.pc = "done" =>
        /\ chunker.outcome = "Err" <=>
              \/ chunker.chunk_size = 0
              \/ chunker.overlap >= chunker.chunk_size
              \/ chunker.chunk_size > 10000
        /\ chunker.outcome = "Err" => chunker.chunks = <<>>
        /\ chunker.outcome \in {"Ok", "Err"}

\* A blank text has been refused for a chunk_size above the upper bound.
C24_Witness ==
    /\ chunker.pc = "done"
    /\ chunker.outcome = "Err"
    /\ chunker.chunk_size = MAX_CHUNK_SIZE + 1
    /\ chunker.overlap < chunker.chunk_size
    /\ is_blank(chunker.text)

\* The paragraphs from the i-th on stand whole, blank ones apart, in chunks
\* from the c-th on, a later paragraph never in an earlier chunk.
RECURSIVE InOrderFrom(_, _, _, _)
InOrderFrom(paragraphs, chunks, i, c) ==
    IF i > Len(paragraphs) THEN TRUE
    ELSE \E trimmed \in {trim(paragraphs[i])} :
            IF Len(trimmed) = 0 THEN InOrderFrom(paragraphs, chunks, i + 1, c)
            ELSE LET homes == {k \in c..Len(chunks) : contains(chunks[k], trimmed)}
                 IN  /\ homes # {}
                     /\ InOrderFrom(paragraphs, chunks, i + 1,
                                    CHOOSE k \in homes : \A j \in homes : k <= j)

\* C40: for a text that is not blank and valid parameters, chunk_text
\* returns at least one chunk, and every non-empty paragraph of the text
\* stands in full in a chunk, the paragraphs in their order.
C40_NoContentLost ==
    (Chunked /\ ~is_blank(chunker.text))
    => /\ Len(chunker.chunks) > 0
       /\ InOrderFrom(split(chunker.text, "\n\n"), chunker.chunks, 1, 1)

\* A text of two paragraphs was cut into two chunks with an overlap.
C40_Witness ==
    /\ Chunked
    /\ ~chunker.fallback
    /\ chunker.overlap > 0
    /\ Len(chunker.chunks) >= 2
    /\ Len(chunker.paragraphs) >= 2
    /\ \A i \in 1..Len(chunker.paragraphs) : ~is_blank(chunker.paragraphs[i])

(***************************************************************************)
(* The document store (database.rs, documents.rs): documents, chunks and   *)
(* the keyword index chunks_fts, with the foreign key and the triggers of  *)
(* init_database (SpecStore).  Ranking and truncation of the search        *)
(* results are in SpecSearch; here a search gives the set of its rows.     *)
(***************************************************************************)

MaxDocuments == 2

MaxRows == 2

StoreTexts == {"plan", "income"}

\* The chunks of a document of n chunks.
DocumentTexts(n) == [i \in 1..n |-> IF i % 2 = 1 THEN "plan" ELSE "income"]

\* A foreign key that takes no action: the rows of the child table stay.
OnDeleteNoAction(chunks, document_id) == chunks

\* FOREIGN KEY (document_id) REFERENCES documents(id) ON DELETE CASCADE, with
\* PRAGMA foreign_keys = ON: the chunks left when document_id is deleted.
OnDeleteCascade(chunks, document_id) ==
    {c \in chunks : c.document_id # document_id}

\* Trigger chunks_ai, for each inserted row of chunks.
chunks_ai(chunks_fts, inserted) ==
    chunks_fts \cup {[rowid |-> new.id, chunk_text |-> new.chunk_text,
                      document_id |-> new.document_id] : new \in inserted}

\* Trigger chunks_ad, for each deleted row of chunks.
chunks_ad(chunks_fts, deleted) ==
    {f \in chunks_fts : \A old \in deleted : f.rowid # old.id}

\* chunks_fts MATCH on the texts of the store, for the phrase of each query.
StoreMatches ==
    [query \in StoreTexts |->
        {text \in StoreTexts : FtsMatch("\"" \o query \o "\"", text)}]

\* FROM chunks c JOIN documents d ON c.document_id = d.id
DenseRows(s) ==
    {[chunk_id |-> c.id, document_id |-> c.document_id] :
        c \in {c \in s.chunks : c.document_id \in s.documents}}

\* FROM chunks_fts JOIN chunks c ON chunks_fts.rowid = c.id
\* JOIN documents d ON c.document_id = d.id WHERE chunks_fts MATCH ?1
KeywordRows(s, query) ==
    {[chunk_id |-> c.id, document_id |-> c.document_id] :
        c \in {c \in s.chunks :
                  /\ c.document_id \in s.documents
                  /\ \E f \in s.chunks_fts :
                        /\ f.rowid = c.id
                        /\ f.chunk_text \in StoreMatches[query]}}

\* The rows of search kind for query.
SearchRows(s, kind, query) ==
    CASE kind = "dense" -> DenseRows(s)
      [] kind = "keyword" -> KeywordRows(s, query)
      [] kind = "hybrid" -> DenseRows(s) \cup KeywordRows(s, query)

\* No transaction is open.
NoTransaction == [active |-> FALSE, before |-> <<>>, texts |-> <<>>, step |-> 0]

\* init_database has run on an empty database.
OpenStore ==
    [pc |-> "open", documents |-> {}, chunks |-> {}, chunks_fts |-> {},
     next_document |-> 1, next_chunk |-> 1, deleted |-> {},
     tx |-> NoTransaction, uploaded |-> {},
     outcome |-> "none", searched |-> "none", results |-> {}, deleted_before |-> {}]

\* The tables and the sqlite_sequence counters of the store.
Tables(s) ==
    [documents |-> s.documents, chunks |-> s.chunks, chunks_fts |-> s.chunks_fts,
     next_document |-> s.next_document, next_chunk |-> s.next_chunk]

WithTables(s, t) ==
    [s EXCEPT !.documents = t.documents, !.chunks = t.chunks,
              !.chunks_fts = t.chunks_fts, !.next_document = t.next_document,
              !.next_chunk = t.next_chunk]

\* What the other connections read: the tables without the rows of the open
\* transaction.
Committed(s) == IF s.tx.active THEN WithTables(s, s.tx.before) ELSE s

\* A failure that leaves the rows inserted so far in the tables.
KeepInsertedRows(s) ==
    [s EXCEPT !.tx = [s.tx EXCEPT !.active = FALSE, !.before = <<>>],
              !.outcome = "Err"]

\* ROLLBACK, or the connection dropped with its transaction open: the tables
\* are as they were at BEGIN; upload_document returns the error.
Rollback(s) ==
    [WithTables(s, s.tx.before) EXCEPT
        !.tx = [s.tx EXCEPT !.active = FALSE, !.before = <<>>],
        !.outcome = "Err"]

\* upload_document up to BEGIN IMMEDIATE, for a document that has chunks: the
\* connection or the BEGIN fails, or the transaction is open.
BeginUpload ==
    /\ store.pc = "open"
    /\ ~store.tx.active
    /\ store.next_document <= MaxDocuments
    /\ \E texts \in {DocumentTexts(n) : n \in 1..MaxRows} :
          \/ store' = [store EXCEPT !.outcome = "Err"]
          \/ store' = [store EXCEPT
                          !.tx = [active |-> TRUE, before |-> Tables(store),
                                  texts |-> texts, step |-> 0]]
    /\ UNCHANGED notStore

\* One INSERT of the transaction: the document row, then the chunks with
\* their indices 0, 1, ..; an INSERT that fails ends the call in ROLLBACK.
UploadInsert ==
    /\ store.pc = "open"
    /\ store.tx.active
    /\ store.tx.step <= Len(store.tx.texts)
    /\ \/ store' = Rollback(store)
       \/ /\ store.tx.step = 0
          /\ store' = [store EXCEPT
                          !.documents = store.documents \cup {store.next_document},
                          !.next_document = store.next_document + 1,
                          !.tx.step = 1]
       \/ /\ store.tx.step > 0
          /\ LET index == store.tx.step - 1
                 inserted == {[id |-> store.next_chunk,
                               document_id |-> store.next_document - 1,
                               chunk_text |-> store.tx.texts[index + 1],
                               chunk_index |-> index]}
             IN  store' = [store EXCEPT
                              !.chunks = store.chunks \cup inserted,
                              !.chunks_fts = chunks_ai(store.chunks_fts, inserted),
                              !.next_chunk = store.next_chunk + 1,
                              !.tx.step = store.tx.step + 1]
    /\ UNCHANGED notStore

\* COMMIT: the rows become the store's, or COMMIT fails and the connection is
\* dropped with the transaction open.
UploadCommit ==
    /\ store.pc = "open"
    /\ store.tx.active
    /\ store.tx.step = Len(store.tx.texts) + 1
    /\ \/ store' = Rollback(store)
       \/ store' = [store EXCEPT
                       !.uploaded = store.uploaded \cup
                           {[document_id |-> store.next_document - 1,
                             texts |-> store.tx.texts]},
                       !.tx = NoTransaction,
                       !.outcome = "Ok"]
    /\ UNCHANGED notStore

\* delete_document(document_id), for an id the store has issued (AUTOINCREMENT
\* issues no id twice): the connection fails, or the document row is deleted,
\* the foreign key deletes its chunks and chunks_ad their index rows. While a
\* transaction holds the write lock the DELETE does not run.
DeleteDocument ==
    /\ store.pc = "open"
    /\ \E document_id \in 1..(Committed(store).next_document - 1) :
          \/ store' = [store EXCEPT !.outcome = "Err"]
          \/ /\ ~store.tx.active
             /\ LET chunks == OnDeleteCascade(store.chunks, document_id)
                    deleted == store.chunks \ chunks
                IN  store' = [store EXCEPT
                                 !.documents = store.documents \ {document_id},
                                 !.chunks = chunks,
                                 !.chunks_fts = chunks_ad(store.chunks_fts, deleted),
                                 !.deleted = store.deleted \cup {document_id},
                                 !.outcome = "Ok"]
    /\ UNCHANGED notStore

\* search_similar_chunks, keyword_search or hybrid_search on the store.
SearchStore ==
    /\ store.pc = "open"
    /\ \E kind \in {"dense", "keyword", "hybrid"}, query \in StoreTexts :
          store' = [store EXCEPT !.searched = kind,
                                 !.results = SearchRows(Committed(store), kind, query),
                                 !.deleted_before = store.deleted,
                                 !.outcome = "Ok"]
    /\ UNCHANGED notStore

InitStore ==
    /\ ColdCache
    /\ scenario = "store"
    /\ search = NoSearch
    /\ embed = NoEmbedding
    /\ chunker = NoChunking
    /\ cosine = NoCosine
    /\ store = OpenStore

NextStore ==
    BeginUpload \/ UploadInsert \/ UploadCommit \/ DeleteDocument \/ SearchStore

SpecStore == InitStore /\ [][NextStore]_vars

ChunksOf(d) == {c \in Committed(store).chunks : c.document_id = d}

\* C32: whatever an upload did, the store holds for each document nothing at
\* all, or its row with all of its chunks, the i-th chunk at chunk_index
\* i - 1, the ids rising with the index.
C32_UploadIsAtomic ==
    \A d \in 1..MaxDocuments :
        \/ d \notin Committed(store).documents /\ ChunksOf(d) = {}
        \/ /\ d \in Committed(store).documents
           /\ \E u \in store.uploaded :
                 /\ u.document_id = d
                 /\ Cardinality(ChunksOf(d)) = Len(u.texts)
                 /\ \A i \in 1..Len(u.texts) :
                       \E c \in ChunksOf(d) :
                           /\ c.chunk_index = i - 1
                           /\ c.chunk_text = u.texts[i]
                 /\ \A c1, c2 \in ChunksOf(d) :
                       c1.chunk_index < c2.chunk_index => c1.id < c2.id

\* Document 1 is stored with two chunks, and a second upload was rolled back
\* after its row and its first chunk were inserted.
C32_Witness ==
    /\ ~store.tx.active
    /\ store.outcome = "Err"
    /\ store.tx.step = 2
    /\ Len(store.tx.texts) = 2
    /\ store.documents = {1}
    /\ Cardinality(store.chunks) = 2

(***************************************************************************)
(* Embedding::cosine_similarity (embeddings.rs), SpecCosine.  A component  *)
(* is a small integer, Some(v), or NaN, None; a result is 0.0 by an early  *)
(* return, NaN, or the quotient of dot and the root of sq_a * sq_b.        *)
(***************************************************************************)

MaxDimension == 2

NaN == None

Components == {NaN} \cup {Some(v) : v \in -1..1}

\* Embedding::new(vector)
NewEmbedding(vector) == [vector |-> vector, dimension |-> Len(vector)]

Embeddings == {NewEmbedding(vector) : vector \in SeqsUpTo(Components, MaxDimension)}

\* f32 product and sum: NaN where an operand is NaN.
FloatMul(x, y) == IF IsSome(x) /\ IsSome(y) THEN Some(Unwrap(x) * Unwrap(y)) ELSE NaN

FloatAdd(x, y) == IF IsSome(x) /\ IsSome(y) THEN Some(Unwrap(x) + Unwrap(y)) ELSE NaN

\* a.iter().zip(b.iter()).map(|(a, b)| a * b).sum(), over the first n pairs.
RECURSIVE ZipSum(_, _, _)
ZipSum(a, b, n) ==
    IF n = 0 THEN Some(0)
    ELSE FloatAdd(ZipSum(a, b, n - 1), FloatMul(a[n], b[n]))

MinLen(a, b) == IF Len(a) < Len(b) THEN Len(a) ELSE Len(b)

\* cosine_similarity after its dimension test.
ZippedCosine(self, other) ==
    LET dot_product == ZipSum(self.vector, other.vector,
                              MinLen(self.vector, other.vector))
        sq_a == ZipSum(self.vector, self.vector, Len(self.vector))
        sq_b == ZipSum(other.vector, other.vector, Len(other.vector))
    IN  IF sq_a = Some(0) \/ sq_b = Some(0) THEN [kind |-> "zero"]
        ELSE IF IsSome(dot_product) /\ IsSome(sq_a) /\ IsSome(sq_b)
             THEN [kind |-> "quotient", dot |-> Unwrap(dot_product),
                   sq_a |-> Unwrap(sq_a), sq_b |-> Unwrap(sq_b)]
        ELSE [kind |-> "NaN"]

\* A cosine_similarity that does not compare the dimensions.
CosineOfAnyDimensions(self, other) == ZippedCosine(self, other)

cosine_similarity(self, other) ==
    IF self.dimension # other.dimension THEN [kind |-> "zero"]
    ELSE ZippedCosine(self, other)

\* The result is the number 0.0.
IsZero(r) == r.kind = "zero" \/ (r.kind = "quotient" /\ r.dot = 0)

\* Two embeddings are built.
NewEmbeddings ==
    /\ cosine.pc = "new"
    /\ \E self \in Embeddings, other \in Embeddings :
          cosine' = [cosine EXCEPT !.self = self, !.other = other, !.pc = "call"]
    /\ UNCHANGED notCosine

\* self.cosine_similarity(&other) runs and returns.
CosineSimilarity ==
    /\ cosine.pc = "call"
    /\ cosine' = [cosine EXCEPT
                     !.result = cosine_similarity(cosine.self, cosine.other),
                     !.pc = "done"]
    /\ UNCHANGED notCosine

InitCosine ==
    /\ ColdCache
    /\ scenario = "cosine"
    /\ search = NoSearch
    /\ embed = NoEmbedding
    /\ chunker = NoChunking
    /\ store = NoStore
    /\ cosine = [pc |-> "new", self |-> NewEmbedding(<<>>),
                 other |-> NewEmbedding(<<>>), result |-> [kind |-> "none"]]

NextCosine == NewEmbeddings \/ CosineSimilarity

SpecCosine == InitCosine /\ [][NextCosine]_vars

\* C26: cosine_similarity of two embeddings of different dimensions returns,
\* and returns 0.0, whatever their components.
C26_MismatchIsZero ==
    /\ cosine.pc = "done" => cosine.result.kind \in {"zero", "quotient", "NaN"}
    /\ (cosine.pc = "done" /\ Len(cosine.self.vector) # Len(cosine.other.vector)) =>
          IsZero(cosine.result)

\* A vector of one component and a vector of two with a NaN were compared.
C26_Witness ==
    /\ cosine.pc = "done"
    /\ cosine.self.vector = <<Some(1)>>
    /\ cosine.other.vector = <<Some(1), NaN>>
    /\ cosine.result = [kind |-> "zero"]

(***************************************************************************)
(* Properties of the preload status (SpecCache).                           *)
(***************************************************************************)

\* C27: once cancel_preload has run while the preload thread is at work, the
\* steps of that thread after its load leave current_model and current_path
\* as they are and the status stays Cancelled.
C27_CancelledPreloadIsDiscarded ==
    [][(/\ pc[Preloader] \in {"bg_store_model", "bg_store_path", "bg_status"}
        /\ preload_status = "Cancelled"
        /\ pc'[Preloader] # pc[Preloader])
       => /\ UNCHANGED <<current_model, current_path>>
          /\ preload_status' = "Cancelled"]_vars

\* C28: when no call is running, the status is Loaded only while the cache
\* holds the model of the preloaded path.
C28_LoadedOnlyWhileHeld ==
    (/\ \A t \in Threads \cup {Preloader} : pc[t] = "idle"
     /\ preload_status = "Loaded")
    => IsLoaded(arg[Preloader])

\* C33: when no cache operation is in progress, the recorded path is p exactly
\* when the cached model is the one loaded from p, and no path is recorded
\* exactly when no model is cached; a get_or_load that answered "cached"
\* therefore finds the model of its path.
C33_PathTracksModel ==
    (\A t \in Threads \cup {Preloader} : pc[t] = "idle")
    => /\ IsSome(current_path) <=> IsSome(current_model)
       /\ \A p \in Paths : current_path = Some(p) <=> IsLoaded(p)

\* The positions of a thread inside generate.
GenerationSteps == {"ingest", "track", "g_sample", "decode", "finish", "ret"}

\* C35: while a generation holds the model lock, no step drops or replaces
\* the model instance it uses, and no other thread is inside a generation.
C35_GenerationOwnsModel ==
    [][model_lock # NoThread
       => /\ Held(current_model') = Held(current_model)
          /\ Held(current_model) \subseteq alive'
          /\ pc[model_lock] \in GenerationSteps
          /\ \A u \in Threads \ {model_lock} : pc'[u] \notin GenerationSteps]_vars

\* A generation is decoding while another thread holds a newly loaded model
\* it is about to store.
C35_Witness ==
    \E t, u \in Threads :
        /\ model_lock = t
        /\ pc[t] = "decode"
        /\ IsSome(current_model)
        /\ pc[u] = "gol_store_model"
        /\ IsSome(local_model[u])

\* C36: no interleaving of the operations of the cache deadlocks: every call
\* that has started returns, and the preload thread ends.
C36_EveryCallReturns ==
    \A t \in Threads \cup {Preloader} : (pc[t] # "idle") ~> (pc[t] = "idle")

\* A generation that has dropped the guard of the prompt cache is about to
\* read its statistics while a get_or_load waits for the model lock.
C36_Witness ==
    \E t, u \in Threads :
        /\ model_lock = t
        /\ pc[t] = "finish"
        /\ obs.status = "running"
        /\ ~call.cache_guard
        /\ IsSome(PromptCache)
        /\ pc[u] = "gol_store_model"

(***************************************************************************)
(* generate against generate_streaming, and the block heuristic (Spec).    *)
(***************************************************************************)

\* C29: generate stops where generate_streaming stops: streaming ends on a
\* token whose piece holds a stop marker before the piece is appended, so a
\* token of generate that holds one was sampled and not appended.
C29_GenerateStopsAtStopMarker ==
    (call.kind = "generate" /\ IsStopMarker(token_to_str(call.new_token)))
    => obs.appended < obs.sampled

\* C30: a generate_streaming call that no stop request interrupts and whose
\* output holds the same block of 50 characters three times in a row was
\* stopped by a degeneracy heuristic before max_tokens tokens were sampled,
\* and the reason shows it.
C30_BlockRepetitionStops ==
    (/\ call.kind = "streaming"
     /\ obs.status = "Ok"
     /\ ~stop_generation
     /\ contains(call.response, RepeatedBlock \o RepeatedBlock \o RepeatedBlock))
    => /\ obs.reason \in DegeneracyReasons
       /\ obs.sampled < call.max_tokens

\* C34: a stop request issued while a streaming generation is in flight is
\* not lost: while that generation has not left its loop, no step of any
\* thread takes the stop flag down.
C34_StopRequestIsKept ==
    [][(/\ stop_generation
        /\ call.kind = "streaming"
        /\ obs.status = "running"
        /\ \E t \in Threads : model_lock = t /\ pc[t] \notin {"finish", "ret"})
       => stop_generation']_vars

\* C37: the tokens fed to the context of a call, those of the prompt and
\* those generated so far, never exceed the context window.
C37_ContextWithinWindow == call.ctx <= N_CTX

\* C38: the repetition and degeneracy checks of generate_streaming never
\* panic: every slice they take of the generated text, multi-byte characters
\* included, falls on a character boundary.
C38_ChecksNeverPanic ==
    call.kind = "streaming" => obs.error # "SliceOffCharBoundary"

\* The chunk ids of a result list.
IdsOf(results) == {results[r].chunk_id : r \in 1..Len(results)}

\* C39: the set of chunk ids hybrid_search returns is the same for every
\* order in which the HashMap hands out the candidates, fused candidates of
\* equal score at the cut included.
C39_SameResultSet ==
    (Returned /\ search.branch = "fused")
    => \A order \in IterationOrders(ChunkIds(search.semantic_results,
                                               search.keyword_results)) :
          IdsOf(truncate(SortBySimilarityDesc(
                    CombinedResults(search.semantic_results,
                                    search.keyword_results, order)),
                search.top_k)) = IdsOf(search.results)

====
